---- MODULE Spec2Model ----
(***************************************************************************)
(* Academoscope: the event store (api_gateway), the metrics worker that    *)
(* materialises CourseMetrics / LessonMetrics rows (metrics_worker) and    *)
(* the dashboard's windowed funnel computations (dashboard).               *)
(***************************************************************************)
EXTENDS Integers, Sequences, FiniteSets, TLC

\* ------------------------------------------------------------------------
\* Bounds of the model
\* ------------------------------------------------------------------------
MaxEvents == 2      \* events ingested in one behaviour of Spec
MaxTime == 1        \* last value of the wall clock
SmallSeed == 4      \* seeded stores: every pair of counts up to this one,
MaxSeed == 50       \* and every count of completions beside MaxSeed enrolments

Null == <<>>        \* an absent value (None, NULL); a present one is <<v>>
Some(v) == <<v>>

\* ------------------------------------------------------------------------
\* Python arithmetic: int(a / b * 100) on IEEE-754 doubles.
\* A positive double is [m |-> 53 bits, most significant first, e |-> n],
\* its value being m * 2^e.
\* ------------------------------------------------------------------------
MantBits == 53
ChunkBits == 9      \* quotient bits produced by one long-division step
LimbBits == 18      \* width of a limb in the multiplication

\* The number of binary digits of n, 0 <= n < 2^30.
BitLen(n) == CHOOSE k \in 0..30 : n < 2^k /\ (k = 0 \/ 2^(k - 1) <= n)

\* n as exactly w binary digits, most significant first (n < 2^w).
FixedBits(n, w) == [i \in 1..w |-> (n \div 2^(w - i)) % 2]

ToBits(n) == FixedBits(n, BitLen(n))

\* The number whose binary digits are b (at most 30 of them).
RECURSIVE FromBits(_)
FromBits(b) ==
    IF Len(b) = 0 THEN 0
    ELSE IF Len(b) = 1 THEN b[1]
    ELSE LET h == Len(b) \div 2
         IN  FromBits(SubSeq(b, 1, h)) * 2^(Len(b) - h)
                + FromBits(SubSeq(b, h + 1, Len(b)))

Zeros(n) == [i \in 1..n |-> 0]

\* b + 1 on a nonempty bit string; one digit longer when b is all ones.
IncBits(b) ==
    IF \A i \in 1..Len(b) : b[i] = 1 THEN <<1>> \o Zeros(Len(b))
    ELSE LET p == CHOOSE i \in 1..Len(b) :
                      b[i] = 0 /\ \A j \in (i + 1)..Len(b) : b[j] = 1
         IN  [i \in 1..Len(b) |-> IF i < p THEN b[i] ELSE IF i = p THEN 1 ELSE 0]

\* Drop the leading zeros of a bit string that holds a one.
StripZeros(b) ==
    LET p == CHOOSE i \in 1..Len(b) : b[i] = 1 /\ \A j \in 1..(i - 1) : b[j] = 0
    IN  SubSeq(b, p, Len(b))

\* Round-half-to-even of the bit string `bits` (leading bit 1, last bit of
\* weight 2^e, `sticky` telling whether a nonzero remainder follows) to a
\* double.
RoundBits(bits, e, sticky) ==
    LET L == Len(bits) IN
    IF L <= MantBits
    THEN [m |-> bits \o Zeros(MantBits - L), e |-> e - (MantBits - L)]
    ELSE LET head == SubSeq(bits, 1, MantBits)
             guard == bits[MantBits + 1]
             st == sticky \/ \E i \in (MantBits + 2)..L : bits[i] = 1
             up == guard = 1 /\ (st \/ head[MantBits] = 1)
             inc == IncBits(head)
             e2 == e + (L - MantBits)
         IN  IF ~up THEN [m |-> head, e |-> e2]
             ELSE IF Len(inc) > MantBits
                  THEN [m |-> SubSeq(inc, 1, MantBits), e |-> e2 + 1]
                  ELSE [m |-> inc, e |-> e2]

\* Long division, ChunkBits quotient bits a step, until the quotient holds
\* more than MantBits significant bits.  acc holds no leading zeros.
RECURSIVE DivLoop(_, _, _, _)
DivLoop(r, d, acc, e) ==
    IF Len(acc) > MantBits THEN [bits |-> acc, e |-> e, rem |-> r]
    ELSE LET t == r * 2^ChunkBits
             c == FixedBits(t \div d, ChunkBits)
             a == acc \o c
         IN  DivLoop(t % d, d,
                     IF \A i \in 1..Len(a) : a[i] = 0 THEN <<>> ELSE StripZeros(a),
                     e - ChunkBits)

\* float(n) / float(d), 1 <= n < 2^30, 1 <= d < 2^22 (int / int is
\* correctly rounded).
fdiv(n, d) ==
    LET q == DivLoop(n % d, d, ToBits(n \div d), 0)
    IN  RoundBits(q.bits, q.e, q.rem # 0)

\* The bit string of b * k, b of MantBits bits, k a small positive integer.
MulBits(b, k) ==
    LET W == 2^LimbBits
        l2 == FromBits(SubSeq(b, 1, MantBits - 2 * LimbBits))
        l1 == FromBits(SubSeq(b, MantBits - 2 * LimbBits + 1, MantBits - LimbBits))
        l0 == FromBits(SubSeq(b, MantBits - LimbBits + 1, MantBits))
        p0 == l0 * k
        p1 == l1 * k + p0 \div W
        p2 == l2 * k + p1 \div W
    IN  ToBits(p2) \o FixedBits(p1 % W, LimbBits) \o FixedBits(p0 % W, LimbBits)

\* x * float(k) for a small positive integer k.
fmul(x, k) == RoundBits(MulBits(x.m, k), x.e, FALSE)

\* int(x) for a positive double below 2^30.
ftrunc(x) ==
    LET n == MantBits + x.e
    IN  IF n <= 0 THEN 0 ELSE FromBits(SubSeq(x.m, 1, n))

\* int(num / den * 100), den > 0; int() truncates towards zero.
PyPercent(num, den) ==
    IF num = 0 THEN 0
    ELSE IF num > 0 THEN ftrunc(fmul(fdiv(num, den), 100))
    ELSE 0 - ftrunc(fmul(fdiv(0 - num, den), 100))

\* Mathematical floor(num * 100 / den), den > 0.
FloorPercent(num, den) == (num * 100) \div den


\* ------------------------------------------------------------------------
\* State: the tables of common/models.py, the wall clock, the metrics
\* worker's position and locals, and the dashboard's last response.
\* Titles, e-mails and payloads are never read by any computation below
\* and are left out of the rows.
\* ------------------------------------------------------------------------
VARIABLES
    courses,         \* table courses:  row id |-> [external_id]
    lessons,         \* table lessons:  row id |-> [course_id, external_id]
    students,        \* table students: row id |-> [external_id]
    schedule_slots,  \* the ScheduleSlot rows: [id, teacher_id, start_at, end_at]
    events,          \* table events:   row id |-> [course_id, student_id,
                     \*                  lesson_id, event_type, occurred_at]
    course_metrics,  \* table course_metrics: row id |-> CourseMetrics row
    lesson_metrics,  \* table lesson_metrics: row id |-> LessonMetrics row
    now,             \* datetime.utcnow()
    wpc,             \* the worker's position in main / run_once
    wtodo,           \* the rest of the list the worker's for loop walks
    wfirst,          \* local total_students / started_students
    session,         \* the worker session's uncommitted writes
    resp,            \* what the dashboard returned last
    calls,           \* the POST /events requests being handled side by side
    pass             \* history of the passes (see NoPass)

vars == <<courses, lessons, students, schedule_slots, events, course_metrics, lesson_metrics,
          now, wpc, wtodo, wfirst, session, resp, calls, pass>>

catalog == <<courses, lessons, students, schedule_slots>>
tables == <<course_metrics, lesson_metrics>>
locals == <<wtodo, wfirst>>

\* EventTypeEnum
ENROLLED == "enrolled"
LESSON_STARTED == "lesson_started"
LESSON_COMPLETED == "lesson_completed"
COURSE_COMPLETED == "course_completed"
EventTypeEnum == {ENROLLED, LESSON_STARTED, LESSON_COMPLETED, COURSE_COMPLETED}

Ids(table) == 1..Len(table)

\* func.count(distinct(Event.student_id)) over the rows of `rows`.
CountDistinctStudents(rows) == Cardinality({events[i].student_id : i \in rows})

\* ------------------------------------------------------------------------
\* metrics_worker/worker.py: the queries and the rates of the worker
\* ------------------------------------------------------------------------
\* Deliberately wrong variant (mutant): the enrolled count without distinct().
course_total_students_rows(course_id) ==
    Cardinality({i \in Ids(events) :
        events[i].course_id = course_id /\ events[i].event_type = ENROLLED})

course_total_students(course_id) ==
    CountDistinctStudents({i \in Ids(events) :
        events[i].course_id = course_id /\ events[i].event_type = ENROLLED})

course_completed_students(course_id) ==
    CountDistinctStudents({i \in Ids(events) :
        events[i].course_id = course_id /\ events[i].event_type = COURSE_COMPLETED})

completion_rate(completed_students, total_students) ==
    IF total_students # 0 THEN PyPercent(completed_students, total_students) ELSE 0

lesson_started_students(lesson_id) ==
    CountDistinctStudents({i \in Ids(events) :
        events[i].lesson_id = Some(lesson_id) /\ events[i].event_type = LESSON_STARTED})

lesson_completed_students(lesson_id) ==
    CountDistinctStudents({i \in Ids(events) :
        events[i].lesson_id = Some(lesson_id) /\ events[i].event_type = LESSON_COMPLETED})

drop_off_rate(started_students, completed_students) ==
    IF started_students # 0
    THEN PyPercent(started_students - completed_students, started_students)
    ELSE 0

\* ------------------------------------------------------------------------
\* dashboard/app.py: the funnels over a period (start_at = None: all time)
\* ------------------------------------------------------------------------
\* Deliberately wrong variant (mutant): the bound itself is left out.
InPeriod_after(i, start_at) == start_at = Null \/ events[i].occurred_at > start_at[1]

\* filters.append(Event.occurred_at >= start_at) when start_at is not None
InPeriod(i, start_at) == start_at = Null \/ events[i].occurred_at >= start_at[1]

\* Deliberately wrong variant (mutant): func.count(Event.student_id) without distinct.
period_total_students_rows(course_id, start_at) ==
    Cardinality({i \in Ids(events) :
        /\ events[i].event_type = ENROLLED
        /\ events[i].course_id = course_id
        /\ InPeriod(i, start_at)})

\* _calculate_course_metrics_for_period: total_students
period_total_students(course_id, start_at) ==
    CountDistinctStudents({i \in Ids(events) :
        /\ events[i].event_type = ENROLLED
        /\ events[i].course_id = course_id
        /\ InPeriod(i, start_at)})

\* _calculate_course_metrics_for_period: completed_students
period_completed_students(course_id, start_at) ==
    CountDistinctStudents({i \in Ids(events) :
        /\ events[i].event_type = COURSE_COMPLETED
        /\ events[i].course_id = course_id
        /\ InPeriod(i, start_at)})

\* Deliberately wrong variant (mutant): the all-time funnel is taken from
\* the course's CourseMetrics row when there is one.
calculate_course_metrics_for_period_snapshot(course_id, start_at) ==
    LET rows == {i \in 1..Len(course_metrics) :
                    course_metrics[i].course_id = course_id}
        total_students == period_total_students(course_id, start_at)
        completed_students == period_completed_students(course_id, start_at)
        rate == IF total_students # 0
                THEN PyPercent(completed_students, total_students) ELSE 0
    IN  IF start_at = Null /\ rows # {}
        THEN LET m == course_metrics[CHOOSE i \in rows : TRUE]
             IN  <<m.total_students, m.completed_students, m.completion_rate>>
        ELSE <<total_students, completed_students, rate>>

calculate_course_metrics_for_period(course_id, start_at) ==
    LET total_students == period_total_students(course_id, start_at)
        completed_students == period_completed_students(course_id, start_at)
        rate == IF total_students # 0
                THEN PyPercent(completed_students, total_students) ELSE 0
    IN  <<total_students, completed_students, rate>>

calculate_lesson_metrics_for_period(lesson_id, start_at) ==
    LET started_students == CountDistinctStudents({i \in Ids(events) :
            /\ events[i].event_type = LESSON_STARTED
            /\ events[i].lesson_id = Some(lesson_id)
            /\ InPeriod(i, start_at)})
        completed_students == CountDistinctStudents({i \in Ids(events) :
            /\ events[i].event_type = LESSON_COMPLETED
            /\ events[i].lesson_id = Some(lesson_id)
            /\ InPeriod(i, start_at)})
    IN  <<started_students, completed_students>>

\* course_detail: the drop-off rate of one lesson row of the course page
lesson_row(lesson_id, start_at) ==
    LET m == calculate_lesson_metrics_for_period(lesson_id, start_at)
        rate == IF m[1] # 0 THEN PyPercent(m[1] - m[2], m[1]) ELSE 0
    IN  <<m[1], m[2], rate>>

\* course_detail: abort(404) for an unknown course, else the course funnel
\* and the row of every lesson of the course
course_detail(course_id, start_at) ==
    IF course_id \notin Ids(courses)
    THEN [status |-> 404]
    ELSE [status |-> 200,
          metrics |-> calculate_course_metrics_for_period(course_id, start_at),
          lessons |-> [l \in {k \in Ids(lessons) : lessons[k].course_id = course_id}
                          |-> lesson_row(l, start_at)]]

\* student_detail: the courses the student has an event for in the period
student_course_rows(student_id, start_at) ==
    {c \in Ids(courses) :
        \E i \in Ids(events) :
            /\ events[i].student_id = student_id
            /\ InPeriod(i, start_at)
            /\ events[i].course_id = c}

\* student_detail: total_lessons, count(distinct(Lesson.id)) of the course
total_lessons(course_id) ==
    Cardinality({l \in Ids(lessons) : lessons[l].course_id = course_id})

\* student_detail: completed_lessons, count(distinct(Event.lesson_id))
completed_lessons(student_id, course_id, start_at) ==
    Cardinality({events[i].lesson_id : i \in {j \in Ids(events) :
        /\ events[j].student_id = student_id
        /\ events[j].course_id = course_id
        /\ events[j].event_type = LESSON_COMPLETED
        /\ events[j].lesson_id # Null
        /\ InPeriod(j, start_at)}})

\* student_detail: has_course_completed
has_course_completed(student_id, course_id, start_at) ==
    \E i \in Ids(events) :
        /\ events[i].student_id = student_id
        /\ events[i].course_id = course_id
        /\ events[i].event_type = COURSE_COMPLETED
        /\ InPeriod(i, start_at)

\* student_detail: progress of one listed course
progress(student_id, course_id, start_at) ==
    LET total == total_lessons(course_id)
        done == has_course_completed(student_id, course_id, start_at)
        p == IF total # 0
             THEN PyPercent(completed_lessons(student_id, course_id, start_at), total)
             ELSE IF done THEN 100 ELSE 0
    IN  IF done /\ p < 100 THEN 100 ELSE p

\* student_detail: abort(404) for an unknown student, else the progress of
\* every listed course
student_detail(student_id, start_at) ==
    IF student_id \notin Ids(students)
    THEN [status |-> 404]
    ELSE [status |-> 200,
          courses |-> [c \in student_course_rows(student_id, start_at)
                          |-> progress(student_id, c, start_at)]]

\* ------------------------------------------------------------------------
\* Initial state: empty tables (Base.metadata.create_all), the worker about
\* to enter its loop.
\* ------------------------------------------------------------------------
\* History of the passes: dirty, an event was ingested since the current
\* (or last) pass started; clean, the last pass completed and nothing was
\* ingested since it started; fault, the entity at hand when a pass raised;
\* seen, the number of events in the store when the current (or last) pass
\* started.
NoPass == [dirty |-> FALSE, clean |-> FALSE, fault |-> <<>>, seen |-> 0]

WorkerInit ==
    /\ wpc = "run_once"
    /\ wtodo = <<>>
    /\ wfirst = 0
    /\ session = <<>>
    /\ pass = NoPass

Init ==
    /\ courses = <<>>
    /\ schedule_slots = <<>>
    /\ lessons = <<>>
    /\ students = <<>>
    /\ events = <<>>
    /\ course_metrics = <<>>
    /\ lesson_metrics = <<>>
    /\ now = 0
    /\ resp = [kind |-> "none"]
    /\ calls = <<>>
    /\ WorkerInit

\* ------------------------------------------------------------------------
\* api_gateway/app.py: POST /events
\* ------------------------------------------------------------------------
\* External identifiers are strings in the code; the model writes them as
\* numbers kept apart from the row ids.
CourseExt(i) == 100 + i
LessonExt(i) == 200 + i
StudentExt(i) == 1000 + i
CourseExternalIds == {CourseExt(1), CourseExt(2)}
StudentExternalIds == {StudentExt(1), StudentExt(2)}
LessonExternalIds == {LessonExt(1)}

\* External identifiers are opaque: a request names a course (student) the
\* store knows, or the first of the identifiers it does not know yet.
Known(table) == {table[i].external_id : i \in Ids(table)}

FirstNew(ids, table) ==
    {x \in ids \ Known(table) : \A y \in ids \ Known(table) : x <= y}

\* The requests of the model: course-level kinds without a lesson,
\* lesson-level kinds with one; occurred_at absent (the server's clock).
EventIn ==
    [course_external_id : Known(courses) \cup FirstNew(CourseExternalIds, courses),
     lesson_external_id : {Null},
     student_external_id : Known(students) \cup FirstNew(StudentExternalIds, students),
     event_type : {ENROLLED, COURSE_COMPLETED},
     occurred_at : {Null}]
    \cup
    [course_external_id : Known(courses) \cup FirstNew(CourseExternalIds, courses),
     lesson_external_id : {Some(x) : x \in LessonExternalIds},
     student_external_id : Known(students) \cup FirstNew(StudentExternalIds, students),
     event_type : {LESSON_STARTED, LESSON_COMPLETED},
     occurred_at : {Null}]

\* Deliberately wrong variant (mutant): the lesson is looked up by its
\* external id alone, in whatever course.
ingest_event_any_course(event_in) ==
    LET cs == {i \in Ids(courses) :
                  courses[i].external_id = event_in.course_external_id}
        course_id == IF cs = {} THEN Len(courses) + 1 ELSE CHOOSE i \in cs : TRUE
        ls == {i \in Ids(lessons) :
                  Some(lessons[i].external_id) = event_in.lesson_external_id}
        lesson_id == IF ls = {} THEN Len(lessons) + 1 ELSE CHOOSE i \in ls : TRUE
        ss == {i \in Ids(students) :
                  students[i].external_id = event_in.student_external_id}
        student_id == IF ss = {} THEN Len(students) + 1 ELSE CHOOSE i \in ss : TRUE
        occurred_at == IF event_in.occurred_at # Null
                       THEN event_in.occurred_at[1] ELSE now
    IN  /\ courses' = IF cs = {}
                      THEN Append(courses,
                                  [external_id |-> event_in.course_external_id])
                      ELSE courses
        /\ lessons' = IF event_in.lesson_external_id # Null /\ ls = {}
                      THEN Append(lessons,
                                  [course_id |-> course_id,
                                   external_id |-> event_in.lesson_external_id[1]])
                      ELSE lessons
        /\ students' = IF ss = {}
                       THEN Append(students,
                                   [external_id |-> event_in.student_external_id])
                       ELSE students
        /\ events' = Append(events,
                            [course_id |-> course_id,
                             student_id |-> student_id,
                             lesson_id |-> IF event_in.lesson_external_id # Null
                                           THEN Some(lesson_id) ELSE Null,
                             event_type |-> event_in.event_type,
                             occurred_at |-> occurred_at])
        /\ pass' = [pass EXCEPT !.dirty = TRUE, !.clean = FALSE]
        /\ resp' = [kind |-> "event", id |-> Len(events) + 1]
        /\ UNCHANGED <<calls, schedule_slots, tables, now, wpc, locals, session>>

ingest_event(event_in) ==
    LET cs == {i \in Ids(courses) :
                  courses[i].external_id = event_in.course_external_id}
        course_id == IF cs = {} THEN Len(courses) + 1 ELSE CHOOSE i \in cs : TRUE
        ls == {i \in Ids(lessons) :
                  /\ lessons[i].course_id = course_id
                  /\ Some(lessons[i].external_id) = event_in.lesson_external_id}
        lesson_id == IF ls = {} THEN Len(lessons) + 1 ELSE CHOOSE i \in ls : TRUE
        ss == {i \in Ids(students) :
                  students[i].external_id = event_in.student_external_id}
        student_id == IF ss = {} THEN Len(students) + 1 ELSE CHOOSE i \in ss : TRUE
        occurred_at == IF event_in.occurred_at # Null
                       THEN event_in.occurred_at[1] ELSE now
    IN  /\ courses' = IF cs = {}
                      THEN Append(courses,
                                  [external_id |-> event_in.course_external_id])
                      ELSE courses
        /\ lessons' = IF event_in.lesson_external_id # Null /\ ls = {}
                      THEN Append(lessons,
                                  [course_id |-> course_id,
                                   external_id |-> event_in.lesson_external_id[1]])
                      ELSE lessons
        /\ students' = IF ss = {}
                       THEN Append(students,
                                   [external_id |-> event_in.student_external_id])
                       ELSE students
        /\ events' = Append(events,
                            [course_id |-> course_id,
                             student_id |-> student_id,
                             lesson_id |-> IF event_in.lesson_external_id # Null
                                           THEN Some(lesson_id) ELSE Null,
                             event_type |-> event_in.event_type,
                             occurred_at |-> occurred_at])
        /\ pass' = [pass EXCEPT !.dirty = TRUE, !.clean = FALSE]
        /\ resp' = [kind |-> "event", id |-> Len(events) + 1]
        /\ UNCHANGED <<calls, schedule_slots, tables, now, wpc, locals, session>>

Ingest ==
    /\ Len(events) < MaxEvents
    /\ \E event_in \in EventIn : ingest_event(event_in)

\* ------------------------------------------------------------------------
\* metrics_worker/worker.py: main, run_once and the two calculate_* loops.
\* ------------------------------------------------------------------------
CourseSteps == {"course_total", "course_completed"}
LessonSteps == {"lesson_started", "lesson_completed"}
InPass == {"courses_commit", "lessons_query", "lessons_commit"}
              \cup CourseSteps \cup LessonSteps

\* Deliberately wrong variant (mutant): updated_at with onupdate=datetime.utcnow.
ApplyCourseOp_onupdate(table, op) ==
    IF op.op = "insert"
    THEN Append(table, [course_id |-> op.key,
                        total_students |-> op.first,
                        completed_students |-> op.second,
                        completion_rate |-> op.rate,
                        updated_at |-> now])
    ELSE [table EXCEPT ![op.key] = [@ EXCEPT !.total_students = op.first,
                                             !.completed_students = op.second,
                                             !.completion_rate = op.rate,
                                             !.updated_at = now]]

ApplyCourseOp(table, op) ==
    IF op.op = "insert"
    THEN Append(table, [course_id |-> op.key,
                        total_students |-> op.first,
                        completed_students |-> op.second,
                        completion_rate |-> op.rate,
                        updated_at |-> now])
    ELSE [table EXCEPT ![op.key] = [@ EXCEPT !.total_students = op.first,
                                             !.completed_students = op.second,
                                             !.completion_rate = op.rate]]

\* Deliberately wrong variant (mutant): the update assigns the two counts and leaves the rate.
ApplyLessonOp_counts_only(table, op) ==
    IF op.op = "insert"
    THEN Append(table, [lesson_id |-> op.key,
                        started_students |-> op.first,
                        completed_students |-> op.second,
                        drop_off_rate |-> op.rate,
                        updated_at |-> now])
    ELSE [table EXCEPT ![op.key] = [@ EXCEPT !.started_students = op.first,
                                             !.completed_students = op.second]]

ApplyLessonOp(table, op) ==
    IF op.op = "insert"
    THEN Append(table, [lesson_id |-> op.key,
                        started_students |-> op.first,
                        completed_students |-> op.second,
                        drop_off_rate |-> op.rate,
                        updated_at |-> now])
    ELSE [table EXCEPT ![op.key] = [@ EXCEPT !.started_students = op.first,
                                             !.completed_students = op.second,
                                             !.drop_off_rate = op.rate]]

RECURSIVE CommitCourses(_, _)
CommitCourses(table, ops) ==
    IF ops = <<>> THEN table
    ELSE CommitCourses(ApplyCourseOp(table, Head(ops)), Tail(ops))

RECURSIVE CommitLessons(_, _)
CommitLessons(table, ops) ==
    IF ops = <<>> THEN table
    ELSE CommitLessons(ApplyLessonOp(table, Head(ops)), Tail(ops))

\* Deliberately wrong variant (mutant): a new row whether or not one exists.
CourseUpsertOp_add(course_id, total_students, completed_students, rate) ==
    [op |-> "insert", key |-> course_id, first |-> total_students,
     second |-> completed_students, rate |-> rate]

\* db.query(CourseMetrics).filter(course_id == ...).one_or_none(), then
\* db.add(new row) or assignment to the loaded row.
CourseUpsertOp(course_id, total_students, completed_students, rate) ==
    LET rows == {i \in Ids(course_metrics) :
                    course_metrics[i].course_id = course_id}
    IN  IF rows = {}
        THEN [op |-> "insert", key |-> course_id, first |-> total_students,
              second |-> completed_students, rate |-> rate]
        ELSE [op |-> "update", key |-> CHOOSE i \in rows : TRUE,
              first |-> total_students, second |-> completed_students,
              rate |-> rate]

LessonUpsertOp(lesson_id, started_students, completed_students, rate) ==
    LET rows == {i \in Ids(lesson_metrics) :
                    lesson_metrics[i].lesson_id = lesson_id}
    IN  IF rows = {}
        THEN [op |-> "insert", key |-> lesson_id, first |-> started_students,
              second |-> completed_students, rate |-> rate]
        ELSE [op |-> "update", key |-> CHOOSE i \in rows : TRUE,
              first |-> started_students, second |-> completed_students,
              rate |-> rate]

\* A step of the worker ends with a store call whose result another
\* process can change: the listing and the two counts of each entity.  The
\* rate, the lookup of the entity's own metrics row (which only the worker
\* writes) and the write into the session belong to the step of the second
\* count.

\* run_once: db = SessionLocal(); calculate_course_metrics:
\* courses = db.query(Course).all()
StartPass ==
    /\ wpc = "run_once"
    /\ wtodo' = [i \in Ids(courses) |-> i]
    /\ wpc' = IF courses = <<>> THEN "courses_commit" ELSE "course_total"
    /\ pass' = [pass EXCEPT !.dirty = FALSE, !.fault = <<>>, !.seen = Len(events)]
    /\ UNCHANGED <<calls, catalog, events, tables, now, wfirst, session, resp>>

CourseTotal ==
    /\ wpc = "course_total"
    /\ wfirst' = course_total_students(Head(wtodo))
    /\ wpc' = "course_completed"
    /\ UNCHANGED <<calls, catalog, events, tables, now, wtodo, session, resp, pass>>

\* The local total_students is dead once the row is in the session: reset.
CourseCompleted ==
    /\ wpc = "course_completed"
    /\ LET completed_students == course_completed_students(Head(wtodo))
       IN  session' = Append(session,
               CourseUpsertOp(Head(wtodo), wfirst, completed_students,
                              completion_rate(completed_students, wfirst)))
    /\ wtodo' = Tail(wtodo)
    /\ wfirst' = 0
    /\ wpc' = IF Tail(wtodo) = <<>> THEN "courses_commit" ELSE "course_total"
    /\ UNCHANGED <<calls, catalog, events, tables, now, resp, pass>>

CoursesCommit ==
    /\ wpc = "courses_commit"
    /\ course_metrics' = CommitCourses(course_metrics, session)
    /\ session' = <<>>
    /\ wpc' = "lessons_query"
    /\ UNCHANGED <<calls, catalog, events, lesson_metrics, now, locals, resp, pass>>

\* calculate_lesson_metrics: lessons = db.query(Lesson).all()
LessonsQuery ==
    /\ wpc = "lessons_query"
    /\ wtodo' = [i \in Ids(lessons) |-> i]
    /\ wpc' = IF lessons = <<>> THEN "lessons_commit" ELSE "lesson_started"
    /\ UNCHANGED <<calls, catalog, events, tables, now, wfirst, session, resp, pass>>

LessonStarted ==
    /\ wpc = "lesson_started"
    /\ wfirst' = lesson_started_students(Head(wtodo))
    /\ wpc' = "lesson_completed"
    /\ UNCHANGED <<calls, catalog, events, tables, now, wtodo, session, resp, pass>>

LessonCompleted ==
    /\ wpc = "lesson_completed"
    /\ LET completed_students == lesson_completed_students(Head(wtodo))
       IN  session' = Append(session,
               LessonUpsertOp(Head(wtodo), wfirst, completed_students,
                              drop_off_rate(wfirst, completed_students)))
    /\ wtodo' = Tail(wtodo)
    /\ wfirst' = 0
    /\ wpc' = IF Tail(wtodo) = <<>> THEN "lessons_commit" ELSE "lesson_started"
    /\ UNCHANGED <<calls, catalog, events, tables, now, resp, pass>>

\* The second commit, then run_once returns (finally: db.close()) and main
\* goes to time.sleep(interval).
LessonsCommit ==
    /\ wpc = "lessons_commit"
    /\ lesson_metrics' = CommitLessons(lesson_metrics, session)
    /\ pass' = [pass EXCEPT !.clean = ~pass.dirty]
    /\ session' = <<>>
    /\ wpc' = "sleep"
    /\ UNCHANGED <<calls, catalog, events, course_metrics, now, locals, resp>>

\* main: time.sleep(interval) returns and the loop calls run_once again.
\* The clock's unit is the worker's interval: a pass takes no time, a sleep
\* takes one unit.  The clock stops at MaxTime, and the worker with it.
Sleep ==
    /\ wpc = "sleep"
    /\ now < MaxTime
    /\ now' = now + 1
    /\ wpc' = "run_once"
    /\ UNCHANGED <<calls, catalog, events, tables, locals, session, resp, pass>>

\* A store call of the pass raises (store unreachable, lock timeout, ...).
\* Neither calculate_*, run_once nor main catches it: run_once's finally
\* closes the session, which rolls the open transaction back, and the
\* exception leaves main, ending the process.
Fail ==
    /\ wpc \in InPass \cup {"run_once"}
    /\ pass' = [pass EXCEPT
                   !.clean = FALSE,
                   !.fault = IF wpc \in CourseSteps THEN <<"course", Head(wtodo)>>
                             ELSE IF wpc \in LessonSteps THEN <<"lesson", Head(wtodo)>>
                             ELSE <<"store", 0>>]
    /\ session' = <<>>
    /\ wtodo' = <<>>
    /\ wfirst' = 0
    /\ wpc' = "crashed"
    /\ UNCHANGED <<calls, catalog, events, tables, now, resp>>

\* The process is terminated from outside (SIGTERM/SIGKILL) during a pass;
\* the store rolls back the transaction of the lost connection.  (Stopped
\* between passes, the worker just takes no further step.)
Stop ==
    /\ wpc \in InPass
    /\ pass' = [pass EXCEPT !.clean = FALSE]
    /\ session' = <<>>
    /\ wtodo' = <<>>
    /\ wfirst' = 0
    /\ wpc' = "stopped"
    /\ UNCHANGED <<calls, catalog, events, tables, now, resp>>

Worker ==
    \/ StartPass \/ CourseTotal \/ CourseCompleted \/ CoursesCommit
    \/ LessonsQuery \/ LessonStarted \/ LessonCompleted \/ LessonsCommit
    \/ Sleep

Next == Ingest \/ Worker \/ Fail \/ Stop

Spec == Init /\ [][Next]_vars

\* ------------------------------------------------------------------------
\* Stores filled by earlier ingestion, the worker not having run yet.
\* Seed(a, b): students 1..a enrolled in course 1 and started its lesson 1,
\* students 1..b completed the course and the lesson; student 1 enrolled
\* twice when a > 0; course 2 has one enrolment and its lesson 2 one
\* lesson_completed.  Student i acted on day i % 3.
\* The seeds are the pairs of SeedCounts.
\* ------------------------------------------------------------------------
SeedEvent(course_id, student_id, lesson_id, event_type) ==
    [course_id |-> course_id, student_id |-> student_id, lesson_id |-> lesson_id,
     event_type |-> event_type, occurred_at |-> student_id % 3]

SeedEvents(a, b) ==
    [i \in 1..a |-> SeedEvent(1, i, Null, ENROLLED)]
    \o [i \in 1..a |-> SeedEvent(1, i, Some(1), LESSON_STARTED)]
    \o [i \in 1..b |-> SeedEvent(1, i, Null, COURSE_COMPLETED)]
    \o [i \in 1..b |-> SeedEvent(1, i, Some(1), LESSON_COMPLETED)]
    \o (IF a > 0
        THEN <<[SeedEvent(1, 1, Null, ENROLLED) EXCEPT !.occurred_at = 2]>>
        ELSE <<>>)
    \o <<SeedEvent(2, 1, Null, ENROLLED), SeedEvent(2, 1, Some(2), LESSON_COMPLETED)>>

SeedCounts ==
    ((0..SmallSeed) \X (0..SmallSeed)) \cup ({MaxSeed} \X (0..MaxSeed))

InitSeeded ==
    /\ \E ab \in SeedCounts :
          /\ events = SeedEvents(ab[1], ab[2])
          /\ students = [i \in 1..(IF ab[1] > ab[2] THEN ab[1]
                                    ELSE IF ab[2] > 0 THEN ab[2] ELSE 1)
                            |-> [external_id |-> StudentExt(i)]]
    /\ courses = <<[external_id |-> CourseExt(1)], [external_id |-> CourseExt(2)]>>
    /\ schedule_slots = <<>>
    /\ lessons = <<[course_id |-> 1, external_id |-> LessonExt(1)],
                   [course_id |-> 2, external_id |-> LessonExt(1)]>>
    /\ course_metrics = <<>>
    /\ lesson_metrics = <<>>
    /\ now = 0
    /\ resp = [kind |-> "none"]
    /\ calls = <<>>
    /\ WorkerInit

\* The aggregator alone on a seeded store.
NextAgg == Worker \/ Fail \/ Stop

SpecAgg == InitSeeded /\ [][NextAgg]_vars

\* ------------------------------------------------------------------------
\* The dashboard's funnels applied to a seeded store.
\* ------------------------------------------------------------------------
StartAts == {Null} \cup {Some(t) : t \in 0..3}

CourseFunnel ==
    \E course_id \in Ids(courses), start_at \in StartAts :
        /\ resp' = [kind |-> "course", id |-> course_id, start_at |-> start_at,
                    result |-> calculate_course_metrics_for_period(course_id, start_at)]
        /\ UNCHANGED <<calls, catalog, events, tables, now, wpc, locals, session, pass>>

LessonFunnel ==
    \E lesson_id \in Ids(lessons), start_at \in StartAts :
        /\ resp' = [kind |-> "lesson", id |-> lesson_id, start_at |-> start_at,
                    result |-> lesson_row(lesson_id, start_at)]
        /\ UNCHANGED <<calls, catalog, events, tables, now, wpc, locals, session, pass>>

NextFunnel == CourseFunnel \/ LessonFunnel

SpecFunnel == InitSeeded /\ [][NextFunnel]_vars

\* ------------------------------------------------------------------------
\* Properties
\* ------------------------------------------------------------------------
CourseRows(course_id) ==
    {i \in Ids(course_metrics) : course_metrics[i].course_id = course_id}

LessonRows(lesson_id) ==
    {i \in Ids(lesson_metrics) : lesson_metrics[i].lesson_id = lesson_id}

CourseRowValues(i) ==
    <<course_metrics[i].total_students, course_metrics[i].completed_students,
      course_metrics[i].completion_rate>>

LessonRowValues(i) ==
    <<lesson_metrics[i].started_students, lesson_metrics[i].completed_students,
      lesson_metrics[i].drop_off_rate>>

\* C1: once a pass has completed with no ingestion since it started, every
\* course and lesson (all of them existed when it started) has a snapshot
\* row whose counts and rate are those of the dashboard's funnel with
\* start_at = None.
C1_SnapshotIsUnwindowedFunnel ==
    (wpc = "sleep" /\ ~pass.dirty) =>
        /\ \A c \in Ids(courses) :
              /\ CourseRows(c) # {}
              /\ \A i \in CourseRows(c) :
                    CourseRowValues(i) = calculate_course_metrics_for_period(c, Null)
        /\ \A l \in Ids(lessons) :
              /\ LessonRows(l) # {}
              /\ \A i \in LessonRows(l) : LessonRowValues(i) = lesson_row(l, Null)

C1_Witness ==
    /\ wpc = "sleep"
    /\ ~pass.dirty
    /\ \E i \in Ids(course_metrics) : course_metrics[i].total_students > 0
    /\ \E i \in Ids(lesson_metrics) : lesson_metrics[i].started_students > 0

\* C2: once a pass has completed and nothing was ingested since it started,
\* no step of a further pass changes either snapshot table: same rows, same
\* counts, rates and updated_at, no further row.
C2_SecondPassChangesNothing ==
    [][pass.clean => (course_metrics' = course_metrics
                        /\ lesson_metrics' = lesson_metrics)]_vars

\* The second pass has committed, later on the clock than the rows' creation.
C2_Witness ==
    /\ pass.clean
    /\ wpc = "sleep"
    /\ \E i \in Ids(course_metrics) : course_metrics[i].updated_at < now
    /\ \E i \in Ids(lesson_metrics) : lesson_metrics[i].updated_at < now

\* The students having an event of the kind for the course (the lesson)
\* no earlier than the window's lower bound.
InWindow(i, start_at) ==
    IF start_at = Null THEN TRUE ELSE events[i].occurred_at >= start_at[1]

CourseStudentsWith(course_id, event_type, start_at) ==
    {s \in Ids(students) :
        \E i \in Ids(events) :
            /\ events[i].student_id = s
            /\ events[i].course_id = course_id
            /\ events[i].event_type = event_type
            /\ InWindow(i, start_at)}

LessonStudentsWith(lesson_id, event_type, start_at) ==
    {s \in Ids(students) :
        \E i \in Ids(events) :
            /\ events[i].student_id = s
            /\ events[i].lesson_id = Some(lesson_id)
            /\ events[i].event_type = event_type
            /\ InWindow(i, start_at)}

FloorRate(num, den) == IF den > 0 THEN FloorPercent(num, den) ELSE 0

\* C3: for every course, store content and window lower bound, the course
\* funnel returns the number of distinct students with an in-window
\* enrolled event, the number with an in-window course_completed event, and
\* floor(completed * 100 / enrolled), or 0 when nobody is enrolled.
C3_CourseFunnelIsFloor ==
    resp.kind = "course" =>
        LET enrolled_count ==
                Cardinality(CourseStudentsWith(resp.id, ENROLLED, resp.start_at))
            completed_count ==
                Cardinality(CourseStudentsWith(resp.id, COURSE_COMPLETED, resp.start_at))
        IN  resp.result = <<enrolled_count, completed_count,
                            FloorRate(completed_count, enrolled_count)>>

\* 29 of 50 enrolled students completed: the funnel answers 57, not 58.
C3_Witness ==
    /\ resp.kind = "course"
    /\ resp.start_at = Null
    /\ Cardinality(CourseStudentsWith(resp.id, ENROLLED, Null)) = 50
    /\ Cardinality(CourseStudentsWith(resp.id, COURSE_COMPLETED, Null)) = 29
    /\ resp.result = <<50, 29, 57>>

\* C4: for every lesson, store content and window, the lesson's drop-off
\* rate is floor((started - completed) * 100 / started) when started > 0,
\* whichever of the two counts is larger, and 0 when started = 0; the counts
\* are the distinct students with in-window lesson_started and
\* lesson_completed events of that lesson.
C4_DropOffIsFloor ==
    resp.kind = "lesson" =>
        LET started ==
                Cardinality(LessonStudentsWith(resp.id, LESSON_STARTED, resp.start_at))
            completed ==
                Cardinality(LessonStudentsWith(resp.id, LESSON_COMPLETED, resp.start_at))
        IN  resp.result = <<started, completed, FloorRate(started - completed, started)>>

\* 3 students started and 4 completed: the rate is -33, the floor is -34.
C4_Witness ==
    /\ resp.kind = "lesson"
    /\ Cardinality(LessonStudentsWith(resp.id, LESSON_STARTED, resp.start_at)) = 3
    /\ Cardinality(LessonStudentsWith(resp.id, LESSON_COMPLETED, resp.start_at)) = 4
    /\ resp.result = <<3, 4, -33>>

\* C5: in every reachable state each stored CourseMetrics row has
\* completion_rate = floor(completed_students * 100 / total_students) when
\* total_students > 0, else 0, and each stored LessonMetrics row has
\* drop_off_rate = floor((started_students - completed_students) * 100 /
\* started_students) when started_students > 0, else 0.
C5_StoredRateIsFloorOfStoredCounts ==
    /\ \A i \in Ids(course_metrics) :
          course_metrics[i].completion_rate =
              FloorRate(course_metrics[i].completed_students,
                        course_metrics[i].total_students)
    /\ \A i \in Ids(lesson_metrics) :
          lesson_metrics[i].drop_off_rate =
              FloorRate(lesson_metrics[i].started_students
                            - lesson_metrics[i].completed_students,
                        lesson_metrics[i].started_students)

\* A committed course row of 50 enrolled and 29 completed students holds 57.
C5_Witness ==
    \E i \in Ids(course_metrics) :
        /\ course_metrics[i].total_students = 50
        /\ course_metrics[i].completed_students = 29
        /\ course_metrics[i].completion_rate = 57

\* C6: in every reachable state, whatever was ingested (completions of
\* students who never enrolled or never started included), every stored
\* completion_rate and drop_off_rate is in 0..100.
C6_StoredRateIsPercent ==
    /\ \A i \in Ids(course_metrics) : course_metrics[i].completion_rate \in 0..100
    /\ \A i \in Ids(lesson_metrics) : lesson_metrics[i].drop_off_rate \in 0..100

\* One student enrolled and started, two completed: 200 and -100 are stored.
C6_Witness ==
    /\ \E i \in Ids(course_metrics) :
          /\ course_metrics[i].total_students = 1
          /\ course_metrics[i].completed_students = 2
          /\ course_metrics[i].completion_rate = 200
    /\ \E i \in Ids(lesson_metrics) :
          /\ lesson_metrics[i].started_students = 1
          /\ lesson_metrics[i].completed_students = 2
          /\ lesson_metrics[i].drop_off_rate = -100

\* C7: appending a further enrolled event for a (student, course) pair that
\* already has an enrolled event in the window leaves the course's enrolled
\* count of that window as it was, and after a completed pass with nothing
\* ingested since it started the snapshot's total_students is the number of
\* distinct students with an enrolled event: at most 1 per student.
C7_DuplicateEnrolmentCountsOnce ==
    [][/\ (/\ Len(events') = Len(events) + 1
           /\ events'[Len(events')].event_type = ENROLLED)
          => \A start_at \in StartAts, c \in Ids(courses') :
                (/\ events'[Len(events')].course_id = c
                 /\ \E i \in Ids(events) :
                       /\ events[i].student_id = events'[Len(events')].student_id
                       /\ events[i].course_id = c
                       /\ events[i].event_type = ENROLLED
                       /\ InWindow(i, start_at))
                => period_total_students(c, start_at)'
                     = period_total_students(c, start_at)
       /\ (wpc' = "sleep" /\ ~pass'.dirty)
          => \A c \in Ids(courses') :
                (\A i \in CourseRows(c) :
                    course_metrics[i].total_students
                      = Cardinality(CourseStudentsWith(c, ENROLLED, Null)))'
      ]_vars

\* A pair has two enrolled events and the pass that followed stored 1.
C7_Witness ==
    /\ wpc = "sleep"
    /\ ~pass.dirty
    /\ \E i, j \in Ids(events) :
          /\ i < j
          /\ events[i].event_type = ENROLLED
          /\ events[j].event_type = ENROLLED
          /\ events[i].student_id = events[j].student_id
          /\ events[i].course_id = events[j].course_id
          /\ \E r \in CourseRows(events[i].course_id) :
                course_metrics[r].total_students = 1

\* C8: when the computation or the upsert of one course or lesson fails in
\* a pass, every other course and lesson of the pass still has a committed,
\* freshly computed snapshot row when the pass has ended.
C8_OtherEntitiesStillFresh ==
    (wpc = "crashed" /\ ~pass.dirty /\ pass.fault[1] \in {"course", "lesson"}) =>
        /\ \A c \in Ids(courses) :
              pass.fault # <<"course", c>> =>
                  /\ CourseRows(c) # {}
                  /\ \A i \in CourseRows(c) :
                        CourseRowValues(i) = calculate_course_metrics_for_period(c, Null)
        /\ \A l \in Ids(lessons) :
              pass.fault # <<"lesson", l>> =>
                  /\ LessonRows(l) # {}
                  /\ \A i \in LessonRows(l) : LessonRowValues(i) = lesson_row(l, Null)

\* The first of two courses failed: the second one has no row, nor has any
\* lesson.
C8_Witness ==
    /\ wpc = "crashed"
    /\ ~pass.dirty
    /\ pass.fault = <<"course", 1>>
    /\ Len(courses) = 2
    /\ CourseRows(2) = {}
    /\ lessons # <<>>
    /\ lesson_metrics = <<>>

\* C9: a pass that fails as a whole does not end the aggregator loop: after
\* a failed pass the process is still running, asleep until the next tick
\* or in a later pass.
C9_FailedPassDoesNotEndLoop ==
    pass.fault # <<>> => wpc \in {"sleep", "run_once"} \cup InPass

\* The store was unreachable at the first query of a pass: the process ended.
C9_Witness ==
    /\ pass.fault = <<"store", 0>>
    /\ wpc = "crashed"
    /\ ~ENABLED Worker

OpValues(op) == <<op.first, op.second, op.rate>>

CourseValues(row) ==
    <<row.total_students, row.completed_students, row.completion_rate>>

LessonValues(row) ==
    <<row.started_students, row.completed_students, row.drop_off_rate>>

\* Over one step: the row at index i of the table is the row as it was, or
\* it holds the counts and the rate of one computation of this pass (one
\* write of the session being committed) for the same entity.
CourseRowWhollyOldOrNew(i) ==
    \/ i \in Ids(course_metrics) /\ course_metrics'[i] = course_metrics[i]
    \/ /\ wpc = "courses_commit"
       /\ \E k \in Ids(session) :
             /\ CourseValues(course_metrics'[i]) = OpValues(session[k])
             /\ IF session[k].op = "update"
                THEN /\ i \in Ids(course_metrics)
                     /\ session[k].key = i
                     /\ course_metrics'[i].course_id = course_metrics[i].course_id
                ELSE /\ i \notin Ids(course_metrics)
                     /\ session[k].key = course_metrics'[i].course_id

LessonRowWhollyOldOrNew(i) ==
    \/ i \in Ids(lesson_metrics) /\ lesson_metrics'[i] = lesson_metrics[i]
    \/ /\ wpc = "lessons_commit"
       /\ \E k \in Ids(session) :
             /\ LessonValues(lesson_metrics'[i]) = OpValues(session[k])
             /\ IF session[k].op = "update"
                THEN /\ i \in Ids(lesson_metrics)
                     /\ session[k].key = i
                     /\ lesson_metrics'[i].lesson_id = lesson_metrics[i].lesson_id
                ELSE /\ i \notin Ids(lesson_metrics)
                     /\ session[k].key = lesson_metrics'[i].lesson_id

\* C10: whatever step a pass takes, and wherever it fails or the process is
\* stopped, every snapshot row visible in the store is entirely its value
\* from before the step or entirely the value of one computation of this
\* pass (both counts and the rate), and no row is lost.
C10_RowsWhollyOldOrWhollyNew ==
    [][/\ Len(course_metrics') >= Len(course_metrics)
       /\ Len(lesson_metrics') >= Len(lesson_metrics)
       /\ \A i \in Ids(course_metrics') : CourseRowWhollyOldOrNew(i)
       /\ \A i \in Ids(lesson_metrics') : LessonRowWhollyOldOrNew(i)
       /\ wpc' \in {"crashed", "stopped"} => UNCHANGED tables
      ]_vars

\* The second pass committed the course rows and failed at a lesson: the
\* course rows are this pass's, the lesson's row is the first pass's.
C10_Witness ==
    /\ wpc \in {"crashed", "stopped"}
    /\ ~pass.dirty
    /\ course_metrics # <<>>
    /\ \A i \in Ids(course_metrics) :
          CourseRowValues(i)
            = calculate_course_metrics_for_period(course_metrics[i].course_id, Null)
    /\ \E i \in Ids(lesson_metrics) :
          LessonRowValues(i) # lesson_row(lesson_metrics[i].lesson_id, Null)

\* ------------------------------------------------------------------------
\* The loop of main running for ever: once the clock of the model has
\* stopped at MaxTime, time.sleep(interval) still returns and the next pass
\* starts.  A store call may raise (Fail); nobody stops the process.
\* ------------------------------------------------------------------------
SleepOn ==
    /\ wpc = "sleep"
    /\ now = MaxTime
    /\ wpc' = "run_once"
    /\ UNCHANGED <<calls, catalog, events, tables, now, locals, session, resp, pass>>

NextLive == Ingest \/ Worker \/ SleepOn \/ Fail

\* The scheduler runs the worker process: while the process is alive its
\* next step (Worker or SleepOn, the steps of NextLive that move wpc
\* between live positions) is enabled, and it is eventually taken.
Alive == {"run_once", "sleep"} \cup InPass

WorkerStep == wpc \in Alive /\ wpc' \in Alive /\ wpc' # wpc

SpecLive == Init /\ [][NextLive]_vars /\ WF_wpc(WorkerStep)

\* Every course and lesson has a snapshot row, and every row holds the
\* all-time funnel of the store.
SnapshotCurrent ==
    /\ \A c \in Ids(courses) :
          /\ CourseRows(c) # {}
          /\ \A i \in CourseRows(c) :
                CourseRowValues(i) = calculate_course_metrics_for_period(c, Null)
    /\ \A l \in Ids(lessons) :
          /\ LessonRows(l) # {}
          /\ \A i \in LessonRows(l) : LessonRowValues(i) = lesson_row(l, Null)

\* C11: snapshot staleness is bounded: once ingestion has stopped, with the
\* aggregator loop scheduled fairly, eventually every CourseMetrics and
\* LessonMetrics row equals the all-time funnel of the store and stays
\* equal from then on.
C11_EventuallyCurrentForGood == <>[]SnapshotCurrent

\* The worker process has ended on a failed pass while events it never
\* aggregated are in the store.
C11_Witness ==
    /\ wpc = "crashed"
    /\ events # <<>>
    /\ ~SnapshotCurrent

\* ------------------------------------------------------------------------
\* The dashboard reading while the worker runs, on a seeded store: one
\* request (a page, or one of the two calculators called with any id), and
\* the same request again at any later moment.  The snapshot tables are
\* absent at first, or hold the row of a pass that ran when the store had
\* its first event only; the worker's passes then write them.
\* ------------------------------------------------------------------------
ReadSeed == 2

StaleCourseMetrics ==
    <<[course_id |-> 1, total_students |-> 1, completed_students |-> 0,
       completion_rate |-> 0, updated_at |-> 0]>>

InitRead ==
    /\ \E a \in 0..ReadSeed, b \in 0..ReadSeed :
          /\ events = SeedEvents(a, b)
          /\ students = [i \in 1..(IF a > b THEN a ELSE IF b > 0 THEN b ELSE 1)
                            |-> [external_id |-> StudentExt(i)]]
          /\ course_metrics \in {<<>>} \cup (IF a > 0 THEN {StaleCourseMetrics} ELSE {})
    /\ courses = <<[external_id |-> CourseExt(1)], [external_id |-> CourseExt(2)]>>
    /\ schedule_slots = <<>>
    /\ lessons = <<[course_id |-> 1, external_id |-> LessonExt(1)],
                   [course_id |-> 2, external_id |-> LessonExt(1)]>>
    /\ lesson_metrics = <<>>
    /\ now = 0
    /\ resp = [kind |-> "none"]
    /\ calls = <<>>
    /\ WorkerInit

\* What a request is answered with, the store and the tables being as they are.
Answer(kind, id, start_at) ==
    CASE kind = "course_detail" -> course_detail(id, start_at)
      [] kind = "student_detail" -> student_detail(id, start_at)
      [] kind = "calc_course" -> calculate_course_metrics_for_period(id, start_at)
      [] kind = "calc_lesson" -> calculate_lesson_metrics_for_period(id, start_at)

\* Deliberately wrong variant (mutant): the answer is also kept as a
\* CourseMetrics row.
Request_keeping(kind, ids) ==
    /\ resp.kind = "none"
    /\ \E id \in ids, start_at \in StartAts :
          resp' = [kind |-> kind, id |-> id, start_at |-> start_at,
                   result |-> Answer(kind, id, start_at),
                   tables |-> tables, again |-> Null]
    /\ course_metrics' = Append(course_metrics,
                                [course_id |-> 0, total_students |-> 0,
                                 completed_students |-> 0, completion_rate |-> 0,
                                 updated_at |-> now])
    /\ UNCHANGED <<calls, catalog, events, lesson_metrics, now, wpc, locals, session, pass>>

Request(kind, ids) ==
    /\ resp.kind = "none"
    /\ \E id \in ids, start_at \in StartAts :
          resp' = [kind |-> kind, id |-> id, start_at |-> start_at,
                   result |-> Answer(kind, id, start_at),
                   tables |-> tables, again |-> Null]
    /\ UNCHANGED <<calls, catalog, events, tables, now, wpc, locals, session, pass>>

\* GET /courses/<course_id>, the id being any number
CourseDetail == Request("course_detail", 1..(Len(courses) + 1))

\* GET /students/<student_id>
StudentDetail == Request("student_detail", 1..(Len(students) + 1))

\* _calculate_course_metrics_for_period(db, course_id, start_at)
CalcCourse == Request("calc_course", 1..(Len(courses) + 1))

\* _calculate_lesson_metrics_for_period(db, lesson_id, start_at)
CalcLesson == Request("calc_lesson", 1..(Len(lessons) + 1))

\* The same request once more; `tables` keeps the snapshot tables of the
\* first time when they have changed since, else Null.
Repeat ==
    /\ resp.kind \in {"course_detail", "student_detail", "calc_course", "calc_lesson"}
    /\ resp.again = Null
    /\ resp' = [resp EXCEPT !.again = Some(Answer(resp.kind, resp.id, resp.start_at)),
                            !.tables = IF tables = resp.tables THEN Null ELSE @]
    /\ UNCHANGED <<calls, catalog, events, tables, now, wpc, locals, session, pass>>

NextRead == CourseDetail \/ StudentDetail \/ CalcCourse \/ CalcLesson \/ Repeat \/ Worker

SpecRead == InitRead /\ [][NextRead]_vars

ReadKinds == {"course_detail", "student_detail", "calc_course", "calc_lesson"}

\* C12: a course page (course funnel and lesson rows), a student page
\* (progress) or a calculator asked twice over the same store and catalog
\* answers the same, whatever the CourseMetrics / LessonMetrics tables held
\* the first time and hold the second time (absent, stale or fresh rows).
C12_ReadsIgnoreSnapshot ==
    (resp.kind \in ReadKinds /\ resp.again # Null) => resp.again = Some(resp.result)

\* A course page with enrolments, asked before and after a commit of the
\* worker changed the tables.
C12_Witness ==
    /\ resp.kind = "course_detail"
    /\ resp.again # Null
    /\ resp.tables # Null
    /\ resp.tables # tables
    /\ resp.result.status = 200
    /\ resp.result.metrics[1] > 0
    /\ course_metrics # <<>>

\* ------------------------------------------------------------------------
\* Student pages on a store filled by earlier ingestion: course 1 has n
\* lessons, student 1 enrolled and completed its lessons 1..k (lesson i on
\* day i % 3, lesson 1 once more on day 2) and, when done, the course on
\* day 1; student 2 completed lesson 1; course 2 has one lesson, completed
\* by student 1 on day 0.
\* ------------------------------------------------------------------------
LessonCounts == (0..SmallSeed) \cup {MaxSeed}

ProgressEvents(n, k, done) ==
    <<SeedEvent(1, 1, Null, ENROLLED)>>
    \o [i \in 1..k |-> [SeedEvent(1, 1, Some(i), LESSON_COMPLETED)
                          EXCEPT !.occurred_at = i % 3]]
    \o (IF k > 0
        THEN <<[SeedEvent(1, 1, Some(1), LESSON_COMPLETED) EXCEPT !.occurred_at = 2]>>
        ELSE <<>>)
    \o (IF done
        THEN <<[SeedEvent(1, 1, Null, COURSE_COMPLETED) EXCEPT !.occurred_at = 1]>>
        ELSE <<>>)
    \o (IF n > 0 THEN <<SeedEvent(1, 2, Some(1), LESSON_COMPLETED)>> ELSE <<>>)
    \o <<[SeedEvent(2, 1, Some(n + 1), LESSON_COMPLETED) EXCEPT !.occurred_at = 0]>>

InitProgress ==
    /\ \E n \in LessonCounts : \E k \in 0..n, done \in BOOLEAN :
          /\ lessons = [i \in 1..(n + 1) |->
                           IF i <= n
                           THEN [course_id |-> 1, external_id |-> LessonExt(i)]
                           ELSE [course_id |-> 2, external_id |-> LessonExt(1)]]
          /\ events = ProgressEvents(n, k, done)
    /\ courses = <<[external_id |-> CourseExt(1)], [external_id |-> CourseExt(2)]>>
    /\ schedule_slots = <<>>
    /\ students = <<[external_id |-> StudentExt(1)], [external_id |-> StudentExt(2)]>>
    /\ course_metrics = <<>>
    /\ lesson_metrics = <<>>
    /\ now = 0
    /\ resp = [kind |-> "none"]
    /\ calls = <<>>
    /\ WorkerInit

NextProgress == StudentDetail \/ Repeat

SpecProgress == InitProgress /\ [][NextProgress]_vars

\* The lessons of the course the student has an in-window lesson_completed
\* event for.
LessonsDone(student_id, course_id, start_at) ==
    {l \in Ids(lessons) :
        /\ lessons[l].course_id = course_id
        /\ \E i \in Ids(events) :
              /\ events[i].student_id = student_id
              /\ events[i].lesson_id = Some(l)
              /\ events[i].event_type = LESSON_COMPLETED
              /\ InWindow(i, start_at)}

LessonsOf(course_id) == {l \in Ids(lessons) : lessons[l].course_id = course_id}

CourseDone(student_id, course_id, start_at) ==
    \E i \in Ids(events) :
        /\ events[i].student_id = student_id
        /\ events[i].course_id = course_id
        /\ events[i].event_type = COURSE_COMPLETED
        /\ InWindow(i, start_at)

\* C13: for every student/course pair and window, progress is 100 when the
\* pair has an in-window course_completed event; otherwise it is
\* floor(lessons of the course completed in-window by the student * 100 /
\* lessons of the course) when the course has a lesson, and 0 when it has
\* none.
C13_ProgressIsFloor ==
    (resp.kind = "student_detail" /\ resp.result.status = 200) =>
        \A c \in DOMAIN resp.result.courses :
            resp.result.courses[c] =
                IF CourseDone(resp.id, c, resp.start_at) THEN 100
                ELSE FloorRate(Cardinality(LessonsDone(resp.id, c, resp.start_at)),
                               Cardinality(LessonsOf(c)))

\* The student completed 29 of the 50 lessons and not the course: 57.
C13_Witness ==
    /\ resp.kind = "student_detail"
    /\ resp.result.status = 200
    /\ resp.start_at = Null
    /\ 1 \in DOMAIN resp.result.courses
    /\ ~CourseDone(resp.id, 1, Null)
    /\ Cardinality(LessonsOf(1)) = 50
    /\ Cardinality(LessonsDone(resp.id, 1, Null)) = 29
    /\ resp.result.courses[1] = 57

\* ------------------------------------------------------------------------
\* dashboard/app.py: _get_student_status.  Datetimes are in hours here;
\* (a - b).days of a timedelta is the floor of the difference in days, also
\* when the difference is negative.
\* ------------------------------------------------------------------------
MaxDays == 32
HoursPerDay == 24

timedelta_days(hours) == hours \div HoursPerDay

\* Deliberately wrong variant (mutant): the first boundary taken strictly.
get_student_status_strict(last_seen_at, utcnow) ==
    IF last_seen_at = Null THEN <<"no_data", "secondary">>
    ELSE LET days_inactive == timedelta_days(utcnow - last_seen_at[1])
         IN  IF days_inactive < 7 THEN <<"active", "success">>
             ELSE IF days_inactive <= 30 THEN <<"inactive", "warning">>
             ELSE <<"risk", "danger">>

\* (status_code, status_badge_color); the label goes with the code.
get_student_status(last_seen_at, utcnow) ==
    IF last_seen_at = Null THEN <<"no_data", "secondary">>
    ELSE LET days_inactive == timedelta_days(utcnow - last_seen_at[1])
         IN  IF days_inactive <= 7 THEN <<"active", "success">>
             ELSE IF days_inactive <= 30 THEN <<"inactive", "warning">>
             ELSE <<"risk", "danger">>

\* The call is made at hour MaxDays * 24, for a student last seen at any
\* hour from MaxDays days before to a day after (a clock ahead), or never.
StatusNow == MaxDays * HoursPerDay

LastSeens == {Null} \cup {Some(h) : h \in 0..(StatusNow + HoursPerDay)}

GetStudentStatus ==
    /\ \E last_seen_at \in LastSeens :
          resp' = [kind |-> "status", last_seen_at |-> last_seen_at,
                   utcnow |-> StatusNow,
                   result |-> get_student_status(last_seen_at, StatusNow)]
    /\ UNCHANGED <<calls, catalog, events, tables, now, wpc, locals, session, pass>>

SpecStatus == Init /\ [][GetStudentStatus]_vars

\* The whole days in a number of hours.
WholeDays(hours) ==
    CHOOSE d \in -2..(MaxDays + 2) :
        d * HoursPerDay <= hours /\ hours < (d + 1) * HoursPerDay

StatusCodes == {"no_data", "active", "inactive", "risk"}

\* C14: the status is no_data iff last_seen is absent; otherwise, with
\* days_inactive the whole days in now - last_seen, it is active iff
\* days_inactive <= 7, inactive iff 7 < days_inactive <= 30, risk iff
\* days_inactive > 30; exactly 7 days gives active, 8 inactive, 30 inactive,
\* 31 risk; one of the four labels is returned for every input.
C14_StatusByWholeDays ==
    resp.kind = "status" =>
        LET code == resp.result[1]
            seen == resp.last_seen_at
            days == WholeDays(resp.utcnow - seen[1])
            ago(d) == seen = Some(resp.utcnow - d * HoursPerDay)
        IN  /\ code \in StatusCodes
            /\ (code = "no_data") = (seen = Null)
            /\ seen # Null =>
                  /\ (code = "active") = (days <= 7)
                  /\ (code = "inactive") = (7 < days /\ days <= 30)
                  /\ (code = "risk") = (days > 30)
            /\ ago(7) => code = "active"
            /\ ago(8) => code = "inactive"
            /\ ago(30) => code = "inactive"
            /\ ago(31) => code = "risk"

\* Last seen 7 days and 23 hours ago: still active.
C14_Witness ==
    /\ resp.kind = "status"
    /\ resp.last_seen_at = Some(resp.utcnow - 7 * HoursPerDay - 23)
    /\ resp.result[1] = "active"

\* ------------------------------------------------------------------------
\* dashboard/app.py: schedule_view, the conflicts between the slots of a
\* teacher.  Datetimes are in half hours from 09:00.  A slot row is
\* [id, teacher_id, start_at, end_at] with teacher_id and end_at optional;
\* schedule_create stores any end time of the day, also one at or before
\* the start.
\* ------------------------------------------------------------------------
MaxSlots == 3
MaxSlotTime == 4
HourUnits == 2

TeacherIds == {1, 2}

SlotValues(teachers) ==
    [teacher_id : teachers,
     start_at : 0..MaxSlotTime,
     end_at : {Null} \cup {Some(t) : t \in 0..(MaxSlotTime + HourUnits)}]

\* The rows a query may return: order_by(start_at.asc()), rows of equal
\* start in any order.  The id of a row is its place in the result here;
\* the code only collects ids.
QueryResults(teachers, n) ==
    {[i \in 1..n |-> [id |-> i, teacher_id |-> f[i].teacher_id,
                      start_at |-> f[i].start_at, end_at |-> f[i].end_at]] :
        f \in {g \in [1..n -> SlotValues(teachers)] :
                  \A i \in 1..(n - 1) : g[i].start_at <= g[i + 1].start_at}}

RECURSIVE insert_by_start_at(_, _)
insert_by_start_at(sorted, slot) ==
    IF sorted = <<>> THEN <<slot>>
    ELSE IF sorted[Len(sorted)].start_at <= slot.start_at
         THEN Append(sorted, slot)
         ELSE Append(insert_by_start_at(SubSeq(sorted, 1, Len(sorted) - 1), slot),
                     sorted[Len(sorted)])

\* teacher_slots.sort(key=lambda s: s.start_at): a stable sort.
RECURSIVE sort_by_start_at(_)
sort_by_start_at(slots) ==
    IF slots = <<>> THEN <<>>
    ELSE insert_by_start_at(sort_by_start_at(SubSeq(slots, 1, Len(slots) - 1)),
                            slots[Len(slots)])

\* slots_by_teacher: the slots without a teacher are skipped.
slots_by_teacher(slots) ==
    [t \in {slots[i].teacher_id[1] : i \in {j \in 1..Len(slots) : slots[j].teacher_id # Null}} |->
        SelectSeq(slots, LAMBDA s : s.teacher_id = Some(t))]

\* Deliberately wrong variant (mutant): the default length is not added.
current_end_no_default(current) ==
    IF current.end_at # Null THEN current.end_at[1] ELSE current.start_at

\* current.end_at or (current.start_at + timedelta(hours=1))
current_end(current) ==
    IF current.end_at # Null THEN current.end_at[1]
    ELSE current.start_at + HourUnits

conflict_slot_ids(slots) ==
    LET by_teacher == slots_by_teacher(slots)
    IN  UNION {LET teacher_slots == sort_by_start_at(by_teacher[t])
               IN  UNION {IF teacher_slots[i + 1].start_at < current_end(teacher_slots[i])
                          THEN {teacher_slots[i].id, teacher_slots[i + 1].id}
                          ELSE {} : i \in 1..(Len(teacher_slots) - 1)}
               : t \in DOMAIN by_teacher}

Schedule(teacher_id, slots) ==
    /\ resp' = [kind |-> "schedule", teacher_id |-> teacher_id, slots |-> slots,
                conflict_slot_ids |-> conflict_slot_ids(slots)]
    /\ UNCHANGED <<calls, catalog, events, tables, now, wpc, locals, session, pass>>

\* The page without a teacher filter: the slots of every teacher and the
\* slots without one.
ScheduleView ==
    /\ resp.kind = "none"
    /\ \E n \in 0..MaxSlots :
          \E slots \in QueryResults({Null} \cup {Some(t) : t \in TeacherIds}, n) :
              Schedule(Null, slots)

\* The page filtered by teacher_id: the slots of that teacher only.
ScheduleViewTeacher ==
    /\ resp.kind = "none"
    /\ \E n \in 0..(MaxSlots + 1) :
          \E slots \in QueryResults({Some(1)}, n) : Schedule(Some(1), slots)

NextSchedule == ScheduleView \/ ScheduleViewTeacher

SpecSchedule == Init /\ [][NextSchedule]_vars

\* The slots of the answered page, and what it means for two of them to
\* overlap: a half hour that lies in both intervals [start, effective end).
PageSlots == {resp.slots[i] : i \in 1..Len(resp.slots)}

EffectiveEnd(slot) ==
    IF slot.end_at = Null THEN slot.start_at + HourUnits ELSE slot.end_at[1]

Covers(slot, t) == slot.start_at <= t /\ t < EffectiveEnd(slot)

Overlap(a, b) ==
    /\ a.id # b.id
    /\ a.teacher_id # Null
    /\ a.teacher_id = b.teacher_id
    /\ \E t \in 0..(MaxSlotTime + HourUnits) : Covers(a, t) /\ Covers(b, t)

\* C15: every slot whose interval [start, effective end) overlaps the
\* interval of at least one other slot of the same teacher is in the set of
\* conflicting ids, also when that other slot is not its neighbour in start
\* order.
C15_EveryOverlapFlagged ==
    resp.kind = "schedule" =>
        \A s \in PageSlots :
            (\E o \in PageSlots : Overlap(s, o)) => s.id \in resp.conflict_slot_ids

\* A slot from 09:00 to 12:00 holds two shorter slots that do not touch;
\* the second of them is not flagged.
C15_Witness ==
    /\ resp.kind = "schedule"
    /\ resp.slots = <<[id |-> 1, teacher_id |-> Some(1), start_at |-> 0, end_at |-> Some(6)],
                      [id |-> 2, teacher_id |-> Some(1), start_at |-> 1, end_at |-> Some(2)],
                      [id |-> 3, teacher_id |-> Some(1), start_at |-> 3, end_at |-> Some(4)]>>
    /\ resp.conflict_slot_ids = {1, 2}

\* C16: of every group of three or more slots of one teacher that all
\* overlap pairwise, each with its end after its start, every id is in the
\* set of conflicting ids.
C16_ClusterAllFlagged ==
    resp.kind = "schedule" =>
        \A G \in SUBSET PageSlots :
            (/\ Cardinality(G) >= 3
             /\ \A s \in G : s.start_at < EffectiveEnd(s)
             /\ \A a \in G : \A b \in G \ {a} : Overlap(a, b))
                => \A s \in G : s.id \in resp.conflict_slot_ids

\* Three slots of one teacher overlap pairwise, a short slot of the same
\* teacher ends where the last of them starts, and the last is not flagged.
C16_Witness ==
    /\ resp.kind = "schedule"
    /\ resp.slots = <<[id |-> 1, teacher_id |-> Some(1), start_at |-> 0, end_at |-> Some(6)],
                      [id |-> 2, teacher_id |-> Some(1), start_at |-> 0, end_at |-> Some(6)],
                      [id |-> 3, teacher_id |-> Some(1), start_at |-> 1, end_at |-> Some(2)],
                      [id |-> 4, teacher_id |-> Some(1), start_at |-> 2, end_at |-> Some(6)]>>
    /\ 4 \notin resp.conflict_slot_ids

\* Places i < j of the page whose slots are of one teacher, with no slot of
\* that teacher between them: neighbours in ascending start order.
Neighbours(i, j) ==
    /\ i < j
    /\ resp.slots[i].teacher_id # Null
    /\ resp.slots[i].teacher_id = resp.slots[j].teacher_id
    /\ \A k \in (i + 1)..(j - 1) : resp.slots[k].teacher_id # resp.slots[i].teacher_id

PairConflicts(i, j) ==
    resp.slots[j].start_at < EffectiveEnd(resp.slots[i])

ExampleSlots ==
    <<[id |-> 1, teacher_id |-> Some(1), start_at |-> 0, end_at |-> Some(2)],
      [id |-> 2, teacher_id |-> Some(1), start_at |-> 1, end_at |-> Some(3)],
      [id |-> 3, teacher_id |-> Some(1), start_at |-> 4, end_at |-> Some(6)]>>

\* C17: two neighbouring slots of one teacher are both flagged by their pair
\* iff the later one starts strictly before the effective end of the earlier
\* one (its end, or its start plus one hour when it has none); a pair whose
\* later slot starts exactly at that end flags nothing, so the flagged ids
\* are exactly those of the conflicting pairs; and for [09:00,10:00),
\* [09:30,10:30), [11:00,12:00) of one teacher they are the first two ids.
C17_NeighbourRule ==
    resp.kind = "schedule" =>
        LET places == 1..Len(resp.slots)
        IN  /\ resp.conflict_slot_ids =
                  UNION {{resp.slots[p[1]].id, resp.slots[p[2]].id} :
                            p \in {q \in places \X places :
                                      Neighbours(q[1], q[2]) /\ PairConflicts(q[1], q[2])}}
            /\ Len(resp.slots) = 2 /\ Neighbours(1, 2) =>
                  resp.conflict_slot_ids =
                      IF PairConflicts(1, 2) THEN {resp.slots[1].id, resp.slots[2].id}
                      ELSE {}
            /\ resp.slots = ExampleSlots => resp.conflict_slot_ids = {1, 2}

\* The example of three slots.
C17_Witness ==
    /\ resp.kind = "schedule"
    /\ resp.slots = ExampleSlots
    /\ resp.conflict_slot_ids = {1, 2}

\* C18: every flagged id is of a slot with a teacher whose interval
\* [start, effective end) overlaps the interval of another slot of the same
\* teacher; a slot without a teacher is never flagged and slots of
\* different teachers never conflict.
C18_FlaggedSlotsOverlap ==
    resp.kind = "schedule" =>
        \A s \in PageSlots :
            s.id \in resp.conflict_slot_ids =>
                /\ s.teacher_id # Null
                /\ \E o \in PageSlots : Overlap(s, o)

\* A slot that ends before it starts is flagged together with the slot
\* that was running at its start.
C18_Witness ==
    /\ resp.kind = "schedule"
    /\ \E s \in PageSlots :
          /\ s.id \in resp.conflict_slot_ids
          /\ EffectiveEnd(s) <= s.start_at

\* The events a funnel of the entity counts, within the window.
CourseFunnelEvents(course_id, start_at) ==
    {i \in Ids(events) :
        /\ events[i].course_id = course_id
        /\ events[i].event_type \in {ENROLLED, COURSE_COMPLETED}
        /\ InWindow(i, start_at)}

LessonFunnelEvents(lesson_id, start_at) ==
    {i \in Ids(events) :
        /\ events[i].lesson_id = Some(lesson_id)
        /\ events[i].event_type \in {LESSON_STARTED, LESSON_COMPLETED}
        /\ InWindow(i, start_at)}

\* C19: a funnel calculator called with a course or lesson id that is not
\* in the catalog does not answer the zeroed metrics; zeroed metrics are
\* answered only for an entity that exists and has no events in the window.
C19_UnknownIdIsNotZeroes ==
    /\ (resp.kind = "calc_course" /\ resp.result = <<0, 0, 0>>) =>
          /\ resp.id \in Ids(courses)
          /\ CourseFunnelEvents(resp.id, resp.start_at) = {}
    /\ (resp.kind = "calc_lesson" /\ resp.result = <<0, 0>>) =>
          /\ resp.id \in Ids(lessons)
          /\ LessonFunnelEvents(resp.id, resp.start_at) = {}

\* The course calculator asked about a course that does not exist, over a
\* store with events: it answers (0, 0, 0), whereas the course page of the
\* same id is a 404.
C19_Witness ==
    /\ resp.kind = "calc_course"
    /\ resp.id \notin Ids(courses)
    /\ events # <<>>
    /\ resp.result = <<0, 0, 0>>
    /\ course_detail(resp.id, resp.start_at).status = 404

\* C20: with a lower bound since, an event counts for a funnel iff its
\* occurred_at >= since, an event at exactly since included; without one
\* every event counts; and a since later than every event of the store
\* gives (0, 0, 0) for every existing course.
C20_WindowIsInclusive ==
    /\ resp.kind = "calc_course" =>
          /\ resp.result[1] =
                Cardinality(CourseStudentsWith(resp.id, ENROLLED, resp.start_at))
          /\ resp.result[2] =
                Cardinality(CourseStudentsWith(resp.id, COURSE_COMPLETED, resp.start_at))
          /\ (/\ resp.start_at # Null
              /\ resp.id \in Ids(courses)
              /\ \A i \in Ids(events) : events[i].occurred_at < resp.start_at[1])
                => resp.result = <<0, 0, 0>>
    /\ resp.kind = "calc_lesson" =>
          /\ resp.result[1] =
                Cardinality(LessonStudentsWith(resp.id, LESSON_STARTED, resp.start_at))
          /\ resp.result[2] =
                Cardinality(LessonStudentsWith(resp.id, LESSON_COMPLETED, resp.start_at))

\* A course whose only enrolments in the window are at exactly since: they
\* are counted.
C20_Witness ==
    /\ resp.kind = "calc_course"
    /\ resp.start_at = Some(2)
    /\ resp.result[1] >= 1
    /\ \A i \in Ids(events) :
          (events[i].course_id = resp.id /\ events[i].event_type = ENROLLED)
              => events[i].occurred_at <= 2

\* The same course asked with a since after every event of the store.
C20_WitnessLate ==
    /\ resp.kind = "calc_course"
    /\ resp.id \in Ids(courses)
    /\ resp.start_at = Some(3)
    /\ CourseStudentsWith(resp.id, ENROLLED, Null) # {}
    /\ resp.result = <<0, 0, 0>>

CalcKinds == {"calc_course", "calc_lesson"}

MaxStoredSlots == 1

\* The form of /schedule/new and /schedule/<id>/edit: teacher_id absent or
\* a number, a start and an optional end on the date given.
SlotForms ==
    [teacher_id : {Null, Some(1)},
     start_at : 0..MaxTime,
     end_at : {Null}]

SlotIds == {schedule_slots[i].id : i \in Ids(schedule_slots)}

NextSlotId == IF SlotIds = {} THEN 1
              ELSE (CHOOSE m \in SlotIds : \A x \in SlotIds : x <= m) + 1

Redirect == [kind |-> "redirect", to |-> "schedule_view"]

\* POST /schedule/new: without a teacher the form is dropped.
ScheduleCreate ==
    /\ \E form \in SlotForms :
          schedule_slots' =
              IF form.teacher_id = Null \/ Len(schedule_slots) >= MaxStoredSlots
              THEN schedule_slots
              ELSE Append(schedule_slots,
                          [id |-> NextSlotId, teacher_id |-> form.teacher_id,
                           start_at |-> form.start_at, end_at |-> form.end_at])
    /\ resp' = Redirect
    /\ UNCHANGED <<calls, courses, lessons, students, events, tables, now, wpc, locals,
                   session, pass>>

\* POST /schedule/<slot_id>/edit
ScheduleEdit ==
    /\ \E slot_id \in 1..(MaxStoredSlots + 1), form \in SlotForms :
          schedule_slots' =
              IF form.teacher_id = Null THEN schedule_slots
              ELSE [i \in Ids(schedule_slots) |->
                       IF schedule_slots[i].id = slot_id
                       THEN [id |-> slot_id, teacher_id |-> form.teacher_id,
                             start_at |-> form.start_at, end_at |-> form.end_at]
                       ELSE schedule_slots[i]]
    /\ resp' = Redirect
    /\ UNCHANGED <<calls, courses, lessons, students, events, tables, now, wpc, locals,
                   session, pass>>

\* Deliberately wrong variant (mutant): the delete takes the newest event along.
ScheduleDelete_cascade ==
    /\ \E slot_id \in 1..(MaxStoredSlots + 1) :
          schedule_slots' = SelectSeq(schedule_slots, LAMBDA slot : slot.id # slot_id)
    /\ events' = IF events = <<>> THEN events ELSE SubSeq(events, 1, Len(events) - 1)
    /\ resp' = Redirect
    /\ UNCHANGED <<calls, courses, lessons, students, tables, now, wpc, locals,
                   session, pass>>

\* POST /schedule/<slot_id>/delete
ScheduleDelete ==
    /\ \E slot_id \in 1..(MaxStoredSlots + 1) :
          schedule_slots' = SelectSeq(schedule_slots, LAMBDA slot : slot.id # slot_id)
    /\ resp' = Redirect
    /\ UNCHANGED <<calls, courses, lessons, students, events, tables, now, wpc, locals,
                   session, pass>>

\* GET /courses/<course_id> of an existing course, over all time.
CoursePage ==
    /\ \E course_id \in Ids(courses) :
          resp' = [kind |-> "course_detail", id |-> course_id, start_at |-> Null,
                   result |-> course_detail(course_id, Null)]
    /\ UNCHANGED <<calls, catalog, events, tables, now, wpc, locals, session, pass>>

NextStore ==
    \/ Ingest \/ Worker
    \/ CoursePage
    \/ ScheduleCreate \/ ScheduleEdit \/ ScheduleDelete

SpecStore == Init /\ [][NextStore]_vars

\* C22: in every step of ingestion, worker passes, dashboard pages and
\* schedule create / edit / delete, every event there before the step is
\* there afterwards with the same course, student, lesson, kind and
\* timestamp; the events change only by ingest_event adding exactly one.
C22_EventsAppendOnly ==
    [][\/ events' = events
       \/ /\ Len(events') = Len(events) + 1
          /\ SubSeq(events', 1, Len(events)) = events
          /\ resp' = [kind |-> "event", id |-> Len(events')]]_vars

\* Events in the store, a snapshot written, and a slot just created, edited
\* or deleted.
C22_Witness ==
    /\ Len(events) = MaxEvents
    /\ course_metrics # <<>>
    /\ schedule_slots = <<>>
    /\ resp = Redirect

\* C23: in every state there is at most one CourseMetrics row per course
\* and at most one LessonMetrics row per lesson: the first pass that sees
\* the entity creates the row, every later pass overwrites it.
C23_OneRowPerEntity ==
    /\ \A i \in Ids(course_metrics) : CourseRows(course_metrics[i].course_id) = {i}
    /\ \A i \in Ids(lesson_metrics) : LessonRows(lesson_metrics[i].lesson_id) = {i}

\* A row created by the pass at time 0 holds an enrolment made at time 1:
\* the later pass has overwritten it.
C23_Witness ==
    \E i \in Ids(course_metrics) :
        /\ course_metrics[i].updated_at = 0
        /\ course_metrics[i].total_students = 1
        /\ \A e \in Ids(events) :
              (events[e].course_id = course_metrics[i].course_id
                  /\ events[e].event_type = ENROLLED) => events[e].occurred_at = 1

\* The courses whose rows the session's writes are about.
WrittenCourses ==
    {IF session[k].op = "insert" THEN session[k].key
     ELSE course_metrics[session[k].key].course_id : k \in 1..Len(session)}

WrittenLessons ==
    {IF session[k].op = "insert" THEN session[k].key
     ELSE lesson_metrics[session[k].key].lesson_id : k \in 1..Len(session)}

\* C24: whenever a pass creates or overwrites a CourseMetrics or
\* LessonMetrics row, the row's updated_at afterwards is not earlier than
\* the start of that pass (the clock does not move during a pass, so that
\* is the time of the commit).
C24_UpdatedAtFollowsWrites ==
    [][/\ (wpc = "courses_commit" /\ wpc' = "lessons_query") =>
              \A i \in Ids(course_metrics') :
                  course_metrics'[i].course_id \in WrittenCourses
                      => course_metrics'[i].updated_at >= now
       /\ (wpc = "lessons_commit" /\ wpc' = "sleep") =>
              \A i \in Ids(lesson_metrics') :
                  lesson_metrics'[i].lesson_id \in WrittenLessons
                      => lesson_metrics'[i].updated_at >= now]_vars

\* The pass at time 1 has overwritten a row and the row still says 0.
C24_Witness ==
    /\ now = 1
    /\ wpc = "lessons_query"
    /\ \E i \in Ids(course_metrics) :
          /\ course_metrics[i].updated_at = 0
          /\ course_metrics[i].total_students = 1
          /\ \A e \in Ids(events) :
                (events[e].course_id = course_metrics[i].course_id
                    /\ events[e].event_type = ENROLLED) => events[e].occurred_at = 1

\* The slots of the page supplied in another order.
Orders(n) == {p \in [1..n -> 1..n] : \A i \in 1..n : \E j \in 1..n : p[j] = i}

Reordered(p) == [i \in 1..Len(resp.slots) |-> resp.slots[p[i]]]

\* C25: the set of conflicting ids depends only on the set of
\* (id, teacher_id, start, end) tuples: it is the same for every order in
\* which the slots are supplied, also when slots of one teacher start at
\* the same time.
C25_OrderDoesNotMatter ==
    resp.kind = "schedule" =>
        \A p \in Orders(Len(resp.slots)) :
            conflict_slot_ids(Reordered(p)) = resp.conflict_slot_ids

\* Two slots of one teacher start at 09:00, one until 12:00 and one until
\* 09:30, and a third runs from 09:30 to 10:00: with the long slot first
\* the third is not flagged, with the short slot first it is.
C25_Witness ==
    /\ resp.kind = "schedule"
    /\ resp.slots = <<[id |-> 1, teacher_id |-> Some(1), start_at |-> 0, end_at |-> Some(6)],
                      [id |-> 2, teacher_id |-> Some(1), start_at |-> 0, end_at |-> Some(1)],
                      [id |-> 3, teacher_id |-> Some(1), start_at |-> 1, end_at |-> Some(2)]>>
    /\ resp.conflict_slot_ids = {1, 2}
    /\ conflict_slot_ids(Reordered(<<2, 1, 3>>)) = {1, 2, 3}

\* ------------------------------------------------------------------------
\* One pass of the worker with ingestion going on: a request more than in
\* Spec, so that two events can arrive between the two counts of a course
\* that an earlier event has created.
\* ------------------------------------------------------------------------
IngestDuringPass ==
    /\ Len(events) < MaxEvents + 1
    /\ \E event_in \in EventIn : ingest_event(event_in)

NextRace ==
    \/ IngestDuringPass
    \/ StartPass \/ CourseTotal \/ CourseCompleted \/ CoursesCommit
    \/ LessonsQuery \/ LessonStarted \/ LessonCompleted \/ LessonsCommit

SpecRace == Init /\ [][NextRace]_vars

\* The counts of a funnel over the first n events: the store as it was when
\* it held n events.
CourseCountAt(n, course_id, event_type) ==
    Cardinality({events[i].student_id :
        i \in {j \in 1..n : /\ events[j].course_id = course_id
                            /\ events[j].event_type = event_type}})

LessonCountAt(n, lesson_id, event_type) ==
    Cardinality({events[i].student_id :
        i \in {j \in 1..n : /\ events[j].lesson_id = Some(lesson_id)
                            /\ events[j].event_type = event_type}})

\* C26: with ingestion going on during a pass, the two counts of every row
\* the pass writes are those of one content of the store, one that existed
\* at some moment since the pass started.
C26_RowCountsOfOneContent ==
    /\ wpc \in CourseSteps \cup {"courses_commit"} =>
          \A k \in 1..Len(session) :
              LET c == IF session[k].op = "insert" THEN session[k].key
                       ELSE course_metrics[session[k].key].course_id
              IN  \E n \in pass.seen..Len(events) :
                      /\ session[k].first = CourseCountAt(n, c, ENROLLED)
                      /\ session[k].second = CourseCountAt(n, c, COURSE_COMPLETED)
    /\ wpc \in LessonSteps \cup {"lessons_commit"} =>
          \A k \in 1..Len(session) :
              LET l == IF session[k].op = "insert" THEN session[k].key
                       ELSE lesson_metrics[session[k].key].lesson_id
              IN  \E n \in pass.seen..Len(events) :
                      /\ session[k].first = LessonCountAt(n, l, LESSON_STARTED)
                      /\ session[k].second = LessonCountAt(n, l, LESSON_COMPLETED)

\* An enrolment and then a completion arrived between the two counts of a
\* course: the row says nobody enrolled and one completed, which the store
\* never held.
C26_Witness ==
    /\ wpc = "courses_commit"
    /\ Len(session) = 1
    /\ session[1].first = 0
    /\ session[1].second = 1
    /\ pass.seen = 1
    /\ Len(events) = 3
    /\ events[2].event_type = ENROLLED
    /\ events[3].event_type = COURSE_COMPLETED
    /\ events[2].course_id = 1 /\ events[3].course_id = 1

\* ------------------------------------------------------------------------
\* api_gateway/app.py: two POST /events requests handled side by side by
\* two gateway processes, each in a session and transaction of its own.
\* A query sees the committed rows; db.add + db.flush inserts a row that
\* the other transaction does not see before the commit; the unique
\* constraints of common/models.py make an insert of a key that another
\* open transaction has inserted wait for that transaction, and make an
\* insert of a committed key raise IntegrityError, which ingest_event does
\* not catch: the request fails and get_db closes the session, rolling the
\* transaction back.
\* A call is [pc, event_in, course_id, lesson_id, student_id, added]: its
\* position in ingest_event, its request, the rows it has found or
\* inserted, and which of them are its own uncommitted inserts.
\* ------------------------------------------------------------------------
CallInputs ==
    [course_external_id : {CourseExt(1)},
     lesson_external_id : {Null},
     student_external_id : {StudentExt(1)},
     event_type : {ENROLLED, COURSE_COMPLETED},
     occurred_at : {Null}]
    \cup
    [course_external_id : {CourseExt(1)},
     lesson_external_id : {Some(LessonExt(1))},
     student_external_id : {StudentExt(1)},
     event_type : {LESSON_STARTED, LESSON_COMPLETED},
     occurred_at : {Null}]

NewCall(event_in) ==
    [pc |-> "course_query", event_in |-> event_in, course_id |-> 0,
     lesson_id |-> Null, student_id |-> 0, added |-> {}]

\* The two requests arrive at an empty store, or at a store where another
\* student has enrolled in the course.
InitCalls ==
    /\ \/ /\ courses = <<>>
          /\ students = <<>>
          /\ events = <<>>
       \/ /\ courses = <<[external_id |-> CourseExt(1)]>>
          /\ students = <<[external_id |-> StudentExt(2)]>>
          /\ events = <<[course_id |-> 1, student_id |-> 1, lesson_id |-> Null,
                         event_type |-> ENROLLED, occurred_at |-> 0]>>
    /\ lessons = <<>>
    /\ schedule_slots = <<>>
    /\ course_metrics = <<>>
    /\ lesson_metrics = <<>>
    /\ now = 0
    /\ resp = [kind |-> "none"]
    /\ calls \in {<<NewCall(e1), NewCall(e2)>> : e1 \in CallInputs, e2 \in CallInputs}
    /\ WorkerInit

Open(j) == calls[j].pc \notin {"done", "failed"}

Raise(call) == [call EXCEPT !.pc = "failed", !.added = {}]

AfterCourse(call) ==
    IF call.event_in.lesson_external_id # Null THEN "lesson_query" ELSE "student_query"

CallFrame == UNCHANGED <<catalog, events, tables, now, wpc, locals, session, resp, pass>>

\* course = db.query(Course).filter(external_id == ...).one_or_none()
CourseQuery ==
    \E k \in Ids(calls) :
        LET call == calls[k]
            cs == {i \in Ids(courses) :
                      courses[i].external_id = call.event_in.course_external_id}
        IN  /\ call.pc = "course_query"
            /\ calls' = [calls EXCEPT ![k] =
                  IF cs = {} THEN [call EXCEPT !.pc = "course_flush"]
                  ELSE [call EXCEPT !.course_id = CHOOSE i \in cs : TRUE,
                                    !.pc = AfterCourse(call)]]
            /\ CallFrame

\* db.add(course); db.flush()
CourseFlush ==
    \E k \in Ids(calls) :
        LET call == calls[k]
            cs == {i \in Ids(courses) :
                      courses[i].external_id = call.event_in.course_external_id}
        IN  /\ call.pc = "course_flush"
            /\ \A j \in Ids(calls) \ {k} :
                  ~(/\ Open(j)
                    /\ "course" \in calls[j].added
                    /\ calls[j].event_in.course_external_id
                          = call.event_in.course_external_id)
            /\ calls' = [calls EXCEPT ![k] =
                  IF cs # {} THEN Raise(call)
                  ELSE [call EXCEPT !.course_id = Len(courses) + 1,
                                    !.added = @ \cup {"course"},
                                    !.pc = AfterCourse(call)]]
            /\ CallFrame

\* lesson = db.query(Lesson).filter(course_id == course.id, external_id == ...)
LessonQuery ==
    \E k \in Ids(calls) :
        LET call == calls[k]
            ls == {i \in Ids(lessons) :
                      /\ lessons[i].course_id = call.course_id
                      /\ Some(lessons[i].external_id) = call.event_in.lesson_external_id}
        IN  /\ call.pc = "lesson_query"
            /\ calls' = [calls EXCEPT ![k] =
                  IF ls = {} THEN [call EXCEPT !.pc = "lesson_flush"]
                  ELSE [call EXCEPT !.lesson_id = Some(CHOOSE i \in ls : TRUE),
                                    !.pc = "student_query"]]
            /\ CallFrame

\* db.add(lesson); db.flush()
LessonFlush ==
    \E k \in Ids(calls) :
        LET call == calls[k]
            ls == {i \in Ids(lessons) :
                      /\ lessons[i].course_id = call.course_id
                      /\ Some(lessons[i].external_id) = call.event_in.lesson_external_id}
        IN  /\ call.pc = "lesson_flush"
            /\ \A j \in Ids(calls) \ {k} :
                  ~(/\ Open(j)
                    /\ "lesson" \in calls[j].added
                    /\ calls[j].course_id = call.course_id
                    /\ calls[j].event_in.lesson_external_id
                          = call.event_in.lesson_external_id)
            /\ calls' = [calls EXCEPT ![k] =
                  IF ls # {} THEN Raise(call)
                  ELSE [call EXCEPT !.lesson_id = Some(Len(lessons) + 1),
                                    !.added = @ \cup {"lesson"},
                                    !.pc = "student_query"]]
            /\ CallFrame

\* student = db.query(Student).filter(external_id == ...).one_or_none()
StudentQuery ==
    \E k \in Ids(calls) :
        LET call == calls[k]
            ss == {i \in Ids(students) :
                      students[i].external_id = call.event_in.student_external_id}
        IN  /\ call.pc = "student_query"
            /\ calls' = [calls EXCEPT ![k] =
                  IF ss = {} THEN [call EXCEPT !.pc = "student_flush"]
                  ELSE [call EXCEPT !.student_id = CHOOSE i \in ss : TRUE,
                                    !.pc = "commit"]]
            /\ CallFrame

\* db.add(student); db.flush()
StudentFlush ==
    \E k \in Ids(calls) :
        LET call == calls[k]
            ss == {i \in Ids(students) :
                      students[i].external_id = call.event_in.student_external_id}
        IN  /\ call.pc = "student_flush"
            /\ \A j \in Ids(calls) \ {k} :
                  ~(/\ Open(j)
                    /\ "student" \in calls[j].added
                    /\ calls[j].event_in.student_external_id
                          = call.event_in.student_external_id)
            /\ calls' = [calls EXCEPT ![k] =
                  IF ss # {} THEN Raise(call)
                  ELSE [call EXCEPT !.student_id = Len(students) + 1,
                                    !.added = @ \cup {"student"},
                                    !.pc = "commit"]]
            /\ CallFrame

\* db.add(db_event); db.commit(); return {"id": db_event.id}
EventCommit ==
    \E k \in Ids(calls) :
        LET call == calls[k]
        IN  /\ call.pc = "commit"
            /\ courses' = IF "course" \in call.added
                          THEN Append(courses,
                                      [external_id |-> call.event_in.course_external_id])
                          ELSE courses
            /\ lessons' = IF "lesson" \in call.added
                          THEN Append(lessons,
                                      [course_id |-> call.course_id,
                                       external_id |-> call.event_in.lesson_external_id[1]])
                          ELSE lessons
            /\ students' = IF "student" \in call.added
                           THEN Append(students,
                                       [external_id |-> call.event_in.student_external_id])
                           ELSE students
            /\ events' = Append(events,
                                [course_id |-> call.course_id,
                                 student_id |-> call.student_id,
                                 lesson_id |-> call.lesson_id,
                                 event_type |-> call.event_in.event_type,
                                 occurred_at |-> now])
            /\ calls' = [calls EXCEPT ![k] = [call EXCEPT !.pc = "done", !.added = {}]]
            /\ pass' = [pass EXCEPT !.dirty = TRUE, !.clean = FALSE]
            /\ resp' = [kind |-> "event", id |-> Len(events) + 1]
            /\ UNCHANGED <<schedule_slots, tables, now, wpc, locals, session>>

NextCalls ==
    \/ CourseQuery \/ CourseFlush
    \/ LessonQuery \/ LessonFlush
    \/ StudentQuery \/ StudentFlush
    \/ EventCommit

SpecCalls == InitCalls /\ [][NextCalls]_vars

CallsOver == calls # <<>> /\ \A k \in Ids(calls) : ~Open(k)

\* C27: however two ingest_event calls that name the same course, lesson or
\* student not yet in the catalog interleave, both succeed and have stored
\* their events, and there is exactly one catalog row for the identifier.
C27_BothCallsStoreTheirEvent ==
    CallsOver =>
        /\ \A k \in Ids(calls) : calls[k].pc = "done"
        /\ \A k \in Ids(calls) :
              /\ Cardinality({i \in Ids(courses) :
                    courses[i].external_id = calls[k].event_in.course_external_id}) = 1
              /\ Cardinality({i \in Ids(students) :
                    students[i].external_id = calls[k].event_in.student_external_id}) = 1
              /\ calls[k].event_in.lesson_external_id # Null =>
                    Cardinality({i \in Ids(lessons) :
                        Some(lessons[i].external_id)
                            = calls[k].event_in.lesson_external_id}) = 1
        /\ Cardinality({i \in Ids(events) :
              students[events[i].student_id].external_id = StudentExt(1)}) = Len(calls)

\* Both calls found no course; one inserted it and committed, the other
\* raised on its insert: one event is in the store, the other is lost.
C27_Witness ==
    /\ CallsOver
    /\ \E k \in Ids(calls) : calls[k].pc = "failed"
    /\ \E k \in Ids(calls) : calls[k].pc = "done"
    /\ Len(courses) = 1
    /\ Len(events) = 1

\* C28: no snapshot count ever decreases, and in every state none exceeds
\* the all-time count of distinct students that the events now in the
\* store give.
C28_CountsGrowAndStayBelowStore ==
    /\ [](/\ \A i \in Ids(course_metrics) :
                LET c == course_metrics[i].course_id
                IN  /\ course_metrics[i].total_students
                          <= CourseCountAt(Len(events), c, ENROLLED)
                    /\ course_metrics[i].completed_students
                          <= CourseCountAt(Len(events), c, COURSE_COMPLETED)
          /\ \A i \in Ids(lesson_metrics) :
                LET l == lesson_metrics[i].lesson_id
                IN  /\ lesson_metrics[i].started_students
                          <= LessonCountAt(Len(events), l, LESSON_STARTED)
                    /\ lesson_metrics[i].completed_students
                          <= LessonCountAt(Len(events), l, LESSON_COMPLETED))
    /\ [][/\ \A i \in Ids(course_metrics) :
                /\ i \in Ids(course_metrics')
                /\ course_metrics'[i].course_id = course_metrics[i].course_id
                /\ course_metrics'[i].total_students >= course_metrics[i].total_students
                /\ course_metrics'[i].completed_students
                      >= course_metrics[i].completed_students
          /\ \A i \in Ids(lesson_metrics) :
                /\ i \in Ids(lesson_metrics')
                /\ lesson_metrics'[i].lesson_id = lesson_metrics[i].lesson_id
                /\ lesson_metrics'[i].started_students
                      >= lesson_metrics[i].started_students
                /\ lesson_metrics'[i].completed_students
                      >= lesson_metrics[i].completed_students]_vars

\* A later pass has raised the counts of a row made by the first one.
C28_Witness ==
    /\ wpc = "sleep"
    /\ now = 1
    /\ \E i \in Ids(lesson_metrics) :
          /\ lesson_metrics[i].updated_at = 0
          /\ lesson_metrics[i].started_students = 1
          /\ \A e \in Ids(events) :
                events[e].event_type = LESSON_STARTED => events[e].occurred_at = 1

\* ------------------------------------------------------------------------
\* Ingestion and the student page.
\* ------------------------------------------------------------------------
\* GET /students/<student_id> of an existing student
StudentPage ==
    /\ \E student_id \in Ids(students), start_at \in StartAts :
          resp' = [kind |-> "student_detail", id |-> student_id, start_at |-> start_at,
                   result |-> student_detail(student_id, start_at)]
    /\ UNCHANGED <<calls, catalog, events, tables, now, wpc, locals, session, pass>>

NextIngest == Ingest \/ StudentPage

SpecIngest == Init /\ [][NextIngest]_vars

\* C29: every event that references a lesson references a lesson of the
\* event's own course; so for every student, course and window the
\* completed lessons counted are no more than the lessons of the course,
\* and every progress shown is an integer in 0..100.
C29_LessonsOfOwnCourse ==
    /\ \A i \in Ids(events) :
          events[i].lesson_id # Null =>
              /\ events[i].lesson_id[1] \in Ids(lessons)
              /\ lessons[events[i].lesson_id[1]].course_id = events[i].course_id
    /\ \A s \in Ids(students), c \in Ids(courses), start_at \in StartAts :
          completed_lessons(s, c, start_at) <= total_lessons(c)
    /\ (resp.kind = "student_detail" /\ resp.result.status = 200) =>
          \A c \in DOMAIN resp.result.courses : resp.result.courses[c] \in 0..100

\* The page of a student who completed the one lesson of a course; the
\* same lesson identifier exists in the other course too.
C29_Witness ==
    /\ resp.kind = "student_detail"
    /\ resp.result.status = 200
    /\ \E c \in DOMAIN resp.result.courses :
          /\ resp.result.courses[c] = 100
          /\ total_lessons(c) = 1
          /\ completed_lessons(resp.id, c, resp.start_at) = 1
    /\ Len(lessons) = 2
    /\ lessons[1].external_id = lessons[2].external_id

\* ------------------------------------------------------------------------
\* dashboard/app.py: the student page and the student list over a period
\* (_get_period, student_detail, students_list).  The clock and the events'
\* occurred_at are in hours here, as for _get_student_status.
\* ------------------------------------------------------------------------
Periods == {"all", "7d", "30d"}

\* _get_period: start_at = utcnow - timedelta(days=7 | 30), or None
get_period(period, utcnow) ==
    IF period = "7d" THEN Some(utcnow - 7 * HoursPerDay)
    ELSE IF period = "30d" THEN Some(utcnow - 30 * HoursPerDay)
    ELSE Null

\* the occurred_at of the student's events
StudentTimes(student_id) ==
    {events[i].occurred_at : i \in {j \in Ids(events) : events[j].student_id = student_id}}

\* func.max(Event.occurred_at) over the rows with occurred_at >= start_at;
\* NULL when there is none
last_seen_at(times, start_at) ==
    LET seen == {t \in times : start_at = Null \/ t >= start_at[1]}
    IN  IF seen = {} THEN Null
        ELSE Some(CHOOSE t \in seen : \A u \in seen : u <= t)

\* Deliberately wrong variant (mutant): the latest event of all time.
student_last_seen_at_ever(student_id, start_at) ==
    last_seen_at(StudentTimes(student_id), Null)

\* event_filters = [Event.student_id == student.id] and, with a start_at,
\* Event.occurred_at >= start_at
student_last_seen_at(student_id, start_at) ==
    last_seen_at(StudentTimes(student_id), start_at)

\* student_detail: the status of the page; `later` is the time from
\* _get_period's reading of the clock to _get_student_status's.
student_status(student_id, period, utcnow, later) ==
    get_student_status(student_last_seen_at(student_id, get_period(period, utcnow)),
                       utcnow + later)

\* students_list: a row for every student joined to an event of the period
students_list(period, utcnow, later) ==
    LET start_at == get_period(period, utcnow)
    IN  [s \in {x \in Ids(students) : student_last_seen_at(x, start_at) # Null} |->
            get_student_status(student_last_seen_at(s, start_at), utcnow + later)]

\* The hours of this part: the events are ingested at the server's clock,
\* which starts at hour 0, and the dashboard is asked 0, 7, 8, 30 or 31
\* days later, or up to a day after that.
WindowNows == {d * HoursPerDay + h : d \in {0, 7, 8, 30, 31}, h \in {0, HoursPerDay - 1}}

\* POST /events with an enrolment in the first course
Enrol ==
    /\ Len(events) < MaxEvents
    /\ \E event_in \in {e \in EventIn : /\ e.event_type = ENROLLED
                                        /\ e.course_external_id = CourseExt(1)} :
          ingest_event(event_in)

\* time passes between two requests
Wait ==
    /\ \E t \in WindowNows : t > now /\ now' = t
    /\ UNCHANGED <<calls, catalog, events, tables, wpc, locals, session, resp, pass>>

\* GET /students/<student_id>?period=...
StudentStatusPage ==
    /\ \E student_id \in Ids(students), period \in Periods, later \in 0..1 :
          resp' = [kind |-> "student_status", id |-> student_id, period |-> period,
                   utcnow |-> now + later,
                   last_seen_at |-> student_last_seen_at(student_id, get_period(period, now)),
                   result |-> student_status(student_id, period, now, later)]
    /\ UNCHANGED <<calls, catalog, events, tables, now, wpc, locals, session, pass>>

\* GET /students?period=...
StudentsListPage ==
    /\ \E period \in Periods, later \in 0..1 :
          resp' = [kind |-> "students_list", period |-> period, utcnow |-> now + later,
                   result |-> students_list(period, now, later)]
    /\ UNCHANGED <<calls, catalog, events, tables, now, wpc, locals, session, pass>>

NextWindow == Enrol \/ Wait \/ StudentStatusPage \/ StudentsListPage

SpecWindow == Init /\ [][NextWindow]_vars

WindowDays(period) == IF period = "7d" THEN 7 ELSE 30

\* the student's events that lie inside the window asked for at hour `asked`
Inside(student_id, period, asked) ==
    {t \in StudentTimes(student_id) :
        period = "all" \/ asked - t <= WindowDays(period) * HoursPerDay}

Latest(times) == CHOOSE t \in times : \A u \in times : u <= t

WindowCodes(period) ==
    IF period = "7d" THEN {"no_data", "active"}
    ELSE IF period = "30d" THEN {"no_data", "active", "inactive"}
    ELSE {"active", "inactive", "risk"}

\* the event times a student of the store can have: ingest_event commits a
\* new student together with an event
Histories == (SUBSET WindowNows) \ {{}}

\* C30 as stated, its last part: with the all-time window each of the four
\* statuses is shown for some event history a student can have, at some
\* clock from the present hour on.
C30_AllFourWithAllTime ==
    \A code \in StatusCodes :
        \E times \in Histories, utcnow \in {t \in WindowNows : t >= now} :
            get_student_status(last_seen_at(times, get_period("all", utcnow)),
                               utcnow)[1] = code

\* C30 (amended): in the student page and the student list the last-seen
\* time given to the classifier is the latest event inside the selected
\* window, so a student whose only events are older than the window gets
\* no_data on the page and has no row in the list; with the 7-day window no
\* student is classified inactive or risk, with the 30-day window none is
\* classified risk; every student of the store has an event, so with the
\* all-time window the status is active, inactive or risk and never no_data.
C30_WindowedStatus ==
    /\ [](\A s \in Ids(students) : StudentTimes(s) \in Histories)
    /\ [][(resp' # resp /\ resp'.kind = "student_status") =>
            LET inside == Inside(resp'.id, resp'.period, now)
            IN  /\ resp'.last_seen_at =
                      IF inside = {} THEN Null ELSE Some(Latest(inside))
                /\ resp'.result = get_student_status(resp'.last_seen_at, resp'.utcnow)
                /\ (resp'.result[1] = "no_data") = (inside = {})
                /\ resp'.result[1] \in WindowCodes(resp'.period)]_vars
    /\ [][(resp' # resp /\ resp'.kind = "students_list") =>
            /\ DOMAIN resp'.result =
                  {s \in Ids(students) : Inside(s, resp'.period, now) # {}}
            /\ \A s \in DOMAIN resp'.result :
                  /\ resp'.result[s] =
                        get_student_status(Some(Latest(Inside(s, resp'.period, now))),
                                           resp'.utcnow)
                  /\ resp'.result[s][1] \in WindowCodes(resp'.period) \ {"no_data"}]_vars

\* The page of a student whose only event is older than 7 days: no_data in
\* the 7-day window, and the student has no row in the 7-day list.
C30_Witness ==
    /\ resp.kind = "student_status"
    /\ resp.period = "7d"
    /\ StudentTimes(resp.id) # {}
    /\ resp.result[1] = "no_data"

C30_WitnessRisk ==
    /\ resp.kind = "student_status"
    /\ resp.period = "all"
    /\ resp.result[1] = "risk"

C30_WitnessAbsent ==
    /\ resp.kind = "students_list"
    /\ resp.period = "30d"
    /\ students # <<>>
    /\ DOMAIN resp.result = {}

====
